---- MODULE Spec2Model ----
(***************************************************************************)
(* A.L.F.R.E.D: the persistent fact store (memory/memory_manager.py), the   *)
(* memory command grammar (service_commands/memory_commands.py) and the     *)
(* dispatch core with its conversation history (core/brain.py), as a        *)
(* machine of Python threads.  Every thread has a program counter and a     *)
(* stack of return labels; one step of a thread is one critical section or  *)
(* one statement that other threads can observe.                            *)
(***************************************************************************)
EXTENDS Naturals, Integers, Sequences, FiniteSets, TLC

\* ------------------------------------------------------------------ bounds
NumThreads == 2

\* The threads of SpecStore make at most MaxCalls calls of the store's functions.
MaxCalls == 3

\* The semantic index takes MaxDocs documents; adding to a full index fails.
MaxDocs == 2

\* The user says at most MaxDispatch things to the assistant.
MaxDispatch == 2

\* The threads of SpecHistory make at most MaxAppends calls of add_to_history.
MaxAppends == 22

\* The callers of SpecWeather make at most MaxLookups calls of the weather
\* functions, within MaxElapsed seconds of the start.
MaxLookups == 3

MaxElapsed == 300

\* The callers of SpecFiles make at most MaxFileCalls calls of
\* handle_file_command.
MaxFileCalls == 2

\* The callers of SpecSearch make at most MaxSearches calls of find_file.
MaxSearches == 3

\* The threads of SpecEmbed make at most MaxVectorCalls calls of
\* store_memory_vector and search_memory.
MaxVectorCalls == 3

Threads == 1..NumThreads

\* Facts: keys and values are strings; the store never looks inside them.
Keys == {"my favorite color", "name"}
Vals == {"blue", "red"}

\* ----------------------------------------------------------------- str
\* Python's str methods, on TLA+ strings (Len, \o, SubSeq and Tail apply).
UpperLetters == "ABCDEFGHIJKLMNOPQRSTUVWXYZ"

LowerLetters == "abcdefghijklmnopqrstuvwxyz"

Whitespace == {" ", "\t", "\n"}

CharAt(s, i) == SubSeq(s, i, i)

LowerChar(c) ==
    IF \E i \in 1..Len(UpperLetters) : CharAt(UpperLetters, i) = c
    THEN CharAt(LowerLetters, CHOOSE i \in 1..Len(UpperLetters) : CharAt(UpperLetters, i) = c)
    ELSE c

UpperChar(c) ==
    IF \E i \in 1..Len(LowerLetters) : CharAt(LowerLetters, i) = c
    THEN CharAt(UpperLetters, CHOOSE i \in 1..Len(LowerLetters) : CharAt(LowerLetters, i) = c)
    ELSE c

\* s.lower()
RECURSIVE Lower(_)
Lower(s) == IF s = "" THEN "" ELSE LowerChar(CharAt(s, 1)) \o Lower(Tail(s))

\* s.capitalize()
Capitalize(s) == IF s = "" THEN "" ELSE UpperChar(CharAt(s, 1)) \o Lower(Tail(s))

RECURSIVE LStrip(_)
LStrip(s) == IF s # "" /\ CharAt(s, 1) \in Whitespace THEN LStrip(Tail(s)) ELSE s

RECURSIVE RStrip(_)
RStrip(s) ==
    IF s # "" /\ CharAt(s, Len(s)) \in Whitespace THEN RStrip(SubSeq(s, 1, Len(s) - 1)) ELSE s

\* s.strip()
Strip(s) == RStrip(LStrip(s))

\* s.startswith(p)
StartsWith(s, p) == Len(p) <= Len(s) /\ SubSeq(s, 1, Len(p)) = p

\* s.find(p) + 1: the first place p occurs at, 0 when it does not occur.
Find(s, p) ==
    LET at == {i \in 1..(Len(s) - Len(p) + 1) : SubSeq(s, i, i + Len(p) - 1) = p}
    IN  IF at = {} THEN 0 ELSE CHOOSE i \in at : \A j \in at : i <= j

\* p in s
Contains(s, p) == Find(s, p) # 0

\* any(p in s for p in ps)
ContainsAny(s, ps) == \E p \in ps : Contains(s, p)

\* s.replace(old, new), old not empty
RECURSIVE Replace(_, _, _)
Replace(s, old, new) ==
    LET i == Find(s, old)
    IN  IF i = 0 THEN s
        ELSE SubSeq(s, 1, i - 1) \o new \o Replace(SubSeq(s, i + Len(old), Len(s)), old, new)

\* s.split(sep, 1), for an s that holds sep: the text before and the text after.
SplitOnce(s, sep) ==
    LET i == Find(s, sep)
    IN  <<SubSeq(s, 1, i - 1), SubSeq(s, i + Len(sep), Len(s))>>

\* ------------------------------------------------------------ the store
\* dict.get(key) of a missing key is None.
Absent == "None"

\* A dict[str, str] over the keys of the model: Absent marks a missing key.
Dict == [Keys -> Vals \cup {Absent}]

EmptyDict == [k \in Keys |-> Absent]

\* d.get(k), for any string k.
Get(d, k) == IF k \in Keys THEN d[k] ELSE Absent

\* Optional[dict]: _memory_cache is None until the first load.
NoneCache == [none |-> TRUE, d |-> EmptyDict]

SomeCache(d) == [none |-> FALSE, d |-> d]

\* json.dump(memory, file, indent=4): the text of a str -> str mapping.
json_dump(d) == [valid |-> TRUE, utf8 |-> TRUE, d |-> d]

\* A file that open(..., "w") truncated and json.dump did not finish.
TruncatedFile == [valid |-> FALSE, utf8 |-> TRUE, d |-> EmptyDict]

\* A file with bytes that are not UTF-8, which open(..., encoding="utf-8")
\* cannot decode.
UndecodableFile == [valid |-> FALSE, utf8 |-> FALSE, d |-> EmptyDict]

\* json.load(file): the mapping, when the text is a JSON document.
json_load(f) == f.d

VARIABLES
    memory_lock,    \* _memory_lock: 0 when free, else the thread that holds it
    memory_cache,   \* _memory_cache
    cache_dirty,    \* _cache_dirty
    memory_file,    \* the content of data/memory.json
    vector_docs,    \* the documents of the semantic index, oldest first
    io_failed,      \* history: a read or a write of memory.json has failed
    saved,          \* history: the last save_memory that ran and how it ended
    calls,          \* history: the number of direct calls made in SpecStore
    last_write,     \* history: the last remember or forget that returned (SpecSeq)
    pc,             \* per thread: the statement it is at
    stack,          \* per thread: the return labels of its callers
    op,             \* per thread: the top-level call in progress
    key,            \* per thread: the key argument of the memory call
    val,            \* per thread: the value argument of remember
    arg,            \* per thread: the object passed to save_memory
    ret,            \* per thread: the value the last callee returned
    history_lock,           \* _history_lock: 0 when free, else its holder
    conversation_history,   \* _conversation_history, oldest entry first
    command_log,    \* the entries of command_log.txt, oldest first
    dispatches,     \* history: the number of get_response calls made
    appended,       \* history: the number of direct add_to_history calls made
    text,           \* per thread: the argument of get_response
    response,       \* per thread: get_response's local of that name
    harg,           \* per thread: the arguments of add_to_history
    messages,       \* per thread: query_llm_with_context's local of that name
    trace,          \* per thread, history: the stages this dispatch has tried
    llm_calls,      \* per thread, history: the provider calls of this dispatch
    invoked,        \* per thread, history: the handlers and commands this dispatch called
    now,            \* time.time(), in seconds
    weather_cache,  \* _weather_cache: cache key -> entry
    location_cache, \* _location_cache
    lookups,        \* history: the weather and location lookups made, oldest first
    fs,             \* the file system: path -> "none", "file" or "dir"
    file_command,   \* the handle_file_command call in progress
    file_calls,     \* history: the handle_file_command calls that have ended
    search_cancelled,   \* _search_cancelled, the Event's flag
    walk,           \* per thread: the find_file call in progress
    searches,       \* history: the number of find_file calls made
    initialized,    \* _initialized
    openai_client,  \* _openai_client is not None
    collection,     \* _collection is not None
    embed,          \* per thread: the call of embeddings_manager in progress
    init_failed,    \* history: creating the collection has failed
    vector_calls    \* history: the number of calls of embeddings_manager made

memVars == <<memory_lock, memory_cache, cache_dirty, memory_file, vector_docs, io_failed,
            saved>>
apiVars == <<calls, last_write>>
thrVars == <<pc, stack, op, key, val, arg, ret>>
sharedBrainVars == <<history_lock, conversation_history, command_log, dispatches, appended>>
localBrainVars == <<text, response, harg, messages, trace, llm_calls, invoked>>
brainVars == <<sharedBrainVars, localBrainVars>>
weatherVars == <<now, weather_cache, location_cache, lookups>>
fileVars == <<fs, file_command, file_calls>>
searchVars == <<search_cancelled, walk, searches>>
embedVars == <<initialized, openai_client, collection, embed, init_failed, vector_calls>>
sideVars == <<searchVars, embedVars>>
worldVars == <<weatherVars, fileVars, sideVars>>
vars == <<memVars, apiVars, thrVars, brainVars, worldVars>>

\* A reference to a dict object.  "alias" is the object _memory_cache is bound
\* to (so it follows that object's in-place updates); "snap" is an object the
\* cache was bound to earlier, which nothing mutates any more.
NoArg == [kind |-> "none", d |-> EmptyDict]

AliasArg == [kind |-> "alias", d |-> EmptyDict]

\* A returned value: None, a dict (load_memory), a stored value or a bool
\* written as Python prints it ("val"), a str, or a list shown by its first item.
NoRet == [kind |-> "none", d |-> EmptyDict, v |-> Absent]

RetDict(d) == [kind |-> "dict", d |-> d, v |-> Absent]

RetVal(v) == [kind |-> "val", d |-> EmptyDict, v |-> v]

RetStr(s) == [kind |-> "str", d |-> EmptyDict, v |-> s]

RetList(first) == [kind |-> "list", d |-> EmptyDict, v |-> first]

\* bool(x) for a returned value, as `if response:` takes it.
Truthy(r) == r.kind = "list" \/ (r.kind = "str" /\ r.v # "")

\* {"role": role, "content": content}; NoEntry while no call is in progress.
Entry(role, content) == [role |-> role, content |-> content]

NoEntry == Entry("", "")

\* A finished call of the store, as the caller's history keeps it.
NoWrite == [op |-> "none", key |-> Absent, val |-> Absent, out |-> Absent]

\* A finished save_memory(memory), as the history keeps it: whether the write
\* failed, and whether clear_cache has since dropped the cache that a failed
\* write left as the only copy.
Saved(failed, memory) == [ran |-> TRUE, failed |-> failed, memory |-> memory, lost |-> FALSE]

NoSave == [ran |-> FALSE, failed |-> FALSE, memory |-> <<>>, lost |-> FALSE]

\* ----------------------------------------------- weather_service.py: values
LOCATION_CACHE_TTL == 300

WEATHER_CACHE_TTL == 180

\* What time.time() returns when the program starts.
StartTime == 1000

\* An entry of _weather_cache; NoCached where the dict has no such key.
Cached(resp, timestamp) == [has |-> TRUE, response |-> resp, timestamp |-> timestamp]

NoCached == [has |-> FALSE, response |-> "", timestamp |-> 0]

\* _weather_cache = {}
EmptyCache == [k \in {} |-> NoCached]

\* _location_cache; data is None (NoLocation) or a (city, country) tuple.
NoLocation == <<>>

LocationCache(data, timestamp) == [data |-> data, timestamp |-> timestamp]

\* ------------------------------------------------- file_assistant.py: values
\* The paths under the home directory that find_file walks, and the name of
\* each.
Paths == {"/home/user/notes", "/home/user/report.txt", "/home/user/report_old.txt"}

PathName ==
    [p \in Paths |->
        CASE p = "/home/user/notes" -> "notes"
          [] p = "/home/user/report.txt" -> "report.txt"
          [] p = "/home/user/report_old.txt" -> "report_old.txt"]

\* The handler's position, its text, the file it is about to delete and the
\* confirmation it has read.
FileCommand(at, u, target, typed) == [pc |-> at, text |-> u, target |-> target, typed |-> typed]

NoFileCommand == FileCommand("idle", "", "", "")

\* ------------------------------------------------- file_assistant.py: search
\* The directories os.walk(search_path) yields, top-down, each with the names
\* of its files.
WalkDirs ==
    << [root |-> "/home/user", files |-> {"report.txt"}],
       [root |-> "/home/user/docs", files |-> {"report_old.txt", "notes.txt"}],
       [root |-> "/home/user/docs/2023", files |-> {"annual_report.pdf"}] >>

\* A find_file call: where it is ("idle", "walk", "done"), the number of
\* directories its loop has gone through, and its matches; as history, the
\* number of directories it had gone through when cancel_search was called
\* during the walk (-1: never).
Walk(at, visited, matches, cancelled_at) ==
    [pc |-> at, visited |-> visited, matches |-> matches, cancelled_at |-> cancelled_at]

NoWalk == Walk("idle", 0, {}, -1)

\* ------------------------------------------------ embeddings_manager.py
\* A call of store_memory_vector or search_memory: where it is, and how it
\* ended ("stored", "found", "skipped": no collection, "failed": logged).
Embed(at, fn, out) == [pc |-> at, fn |-> fn, out |-> out]

NoEmbed == Embed("idle", "", "")

Init ==
    /\ memory_lock = 0
    /\ memory_cache = NoneCache
    /\ cache_dirty = FALSE
    /\ memory_file \in {json_dump(d) : d \in Dict}
    /\ vector_docs = <<>>
    /\ io_failed = FALSE
    /\ saved = NoSave
    /\ calls = 0
    /\ last_write = NoWrite
    /\ pc = [t \in Threads |-> "idle"]
    /\ stack = [t \in Threads |-> <<>>]
    /\ op = [t \in Threads |-> "none"]
    /\ key = [t \in Threads |-> Absent]
    /\ val = [t \in Threads |-> Absent]
    /\ arg = [t \in Threads |-> NoArg]
    /\ ret = [t \in Threads |-> NoRet]
    /\ history_lock = 0
    /\ conversation_history = <<>>
    /\ command_log = <<>>
    /\ dispatches = 0
    /\ appended = 0
    /\ text = [t \in Threads |-> ""]
    /\ response = [t \in Threads |-> NoRet]
    /\ harg = [t \in Threads |-> NoEntry]
    /\ messages = [t \in Threads |-> <<>>]
    /\ trace = [t \in Threads |-> <<>>]
    /\ llm_calls = [t \in Threads |-> <<>>]
    /\ invoked = [t \in Threads |-> <<>>]
    /\ now = StartTime
    /\ weather_cache = EmptyCache
    /\ location_cache = LocationCache(NoLocation, 0)
    /\ lookups = <<>>
    /\ fs = [p \in Paths |-> IF p = "/home/user/notes" THEN "dir" ELSE "file"]
    /\ file_command = NoFileCommand
    /\ file_calls = <<>>
    /\ search_cancelled = FALSE
    /\ walk = [t \in Threads |-> NoWalk]
    /\ searches = 0
    /\ initialized = FALSE
    /\ openai_client = FALSE
    /\ collection = FALSE
    /\ embed = [t \in Threads |-> NoEmbed]
    /\ init_failed = FALSE
    /\ vector_calls = 0

\* ------------------------------------------------------------ thread steps
\* The dict an argument object holds now.
ArgDict(t) == IF arg[t].kind = "alias" THEN memory_cache.d ELSE arg[t].d

\* Rebinding the global name _memory_cache leaves the old object to the
\* threads that still hold a reference to it.
Detach(a) == IF a.kind = "alias" THEN [kind |-> "snap", d |-> memory_cache.d] ELSE a

\* _memory_cache = c, in thread t, whose own parameter is dead afterwards.
Rebind(t, c) ==
    /\ memory_cache' = c
    /\ arg' = [u \in Threads |-> IF u = t THEN NoArg ELSE Detach(arg[u])]

\* call f: push the label to continue at, jump to f's first statement.
Call(t, entry, cont) ==
    /\ pc' = [pc EXCEPT ![t] = entry]
    /\ stack' = [stack EXCEPT ![t] = <<cont>> \o @]

\* return v from the current function to the label on top of the stack.
Return(t, v) ==
    /\ pc' = [pc EXCEPT ![t] = Head(stack[t])]
    /\ stack' = [stack EXCEPT ![t] = Tail(@)]
    /\ ret' = [ret EXCEPT ![t] = v]

Goto(t, label) == pc' = [pc EXCEPT ![t] = label]

\* `with _memory_lock:` threading.Lock is not reentrant: the statement waits
\* until the lock is free, whoever holds it.
AcquireLabels == {"lm_acquire", "sm_acquire", "rem_acquire", "fgt_acquire", "cc_acquire"}

AfterAcquire(label) ==
    CASE label = "lm_acquire" -> "lm_body"
      [] label = "sm_acquire" -> "sm_body"
      [] label = "rem_acquire" -> "rem_body"
      [] label = "fgt_acquire" -> "fgt_body"
      [] label = "cc_acquire" -> "cc_body"

Acquire(t) ==
    /\ pc[t] \in AcquireLabels
    /\ memory_lock = 0
    /\ memory_lock' = t
    /\ Goto(t, AfterAcquire(pc[t]))
    /\ UNCHANGED <<memory_cache, cache_dirty, memory_file, vector_docs, io_failed, saved,
                   stack, op, key, val, arg, ret>>
    /\ UNCHANGED <<apiVars, worldVars, brainVars>>

\* load_memory, lines 47-58, under the lock.
LoadMemoryBody(t) ==
    /\ pc[t] = "lm_body"
    /\ \/ /\ ~memory_cache.none
          /\ Return(t, RetDict(memory_cache.d))
          /\ UNCHANGED <<memory_cache, arg, io_failed, saved>>
       \/ /\ memory_cache.none
          /\ memory_file.valid
          /\ Rebind(t, SomeCache(json_load(memory_file)))
          /\ Return(t, RetDict(json_load(memory_file)))
          /\ UNCHANGED <<io_failed, saved>>
       \/ \* json.JSONDecodeError: the text is no JSON document
          /\ memory_cache.none
          /\ ~memory_file.valid
          /\ memory_file.utf8
          /\ Rebind(t, SomeCache(EmptyDict))
          /\ Return(t, RetDict(EmptyDict))
          /\ UNCHANGED <<io_failed, saved>>
    /\ memory_lock' = 0
    /\ UNCHANGED <<cache_dirty, memory_file, vector_docs, op, key, val>>
    /\ UNCHANGED <<apiVars, worldVars, brainVars>>

\* load_memory, lines 55-58: open() or the read raises IOError.
LoadMemoryIOError(t) ==
    /\ pc[t] = "lm_body"
    /\ memory_cache.none
    /\ Rebind(t, SomeCache(EmptyDict))
    /\ Return(t, RetDict(EmptyDict))
    /\ io_failed' = TRUE
    /\ memory_lock' = 0
    /\ UNCHANGED <<cache_dirty, memory_file, vector_docs, saved, op, key, val>>
    /\ UNCHANGED <<apiVars, worldVars, brainVars>>

\* load_memory, lines 52-58: file.read() inside json.load raises
\* UnicodeDecodeError, a ValueError that is neither json.JSONDecodeError nor
\* IOError; it leaves the with block, which releases the lock.
LoadMemoryDecodeError(t) ==
    /\ pc[t] = "lm_body"
    /\ memory_cache.none
    /\ ~memory_file.utf8
    /\ memory_lock' = 0
    /\ Goto(t, "raise")
    /\ UNCHANGED <<memory_cache, cache_dirty, memory_file, vector_docs, io_failed, saved,
                   stack, op, key, val, arg, ret>>
    /\ UNCHANGED <<apiVars, worldVars, brainVars>>

\* The disk corrupts data/memory.json: the text is cut short, or bytes of it
\* are no longer UTF-8.
CorruptFile ==
    /\ \E f \in {TruncatedFile, UndecodableFile} :
          /\ memory_file # f
          /\ memory_file' = f
    /\ UNCHANGED <<memory_lock, memory_cache, cache_dirty, vector_docs, io_failed, saved>>
    /\ UNCHANGED <<apiVars, thrVars, worldVars, brainVars>>

\* save_memory, lines 69-77, under the lock, for an argument that is a dict.
SaveMemoryBody(t) ==
    /\ pc[t] = "sm_body"
    /\ arg[t].kind # "none"
    /\ LET memory == ArgDict(t) IN
       /\ Rebind(t, SomeCache(memory))
       /\ memory_file' = json_dump(memory)
       /\ saved' = Saved(FALSE, memory)
    /\ cache_dirty' = FALSE
    /\ memory_lock' = 0
    /\ Return(t, NoRet)
    /\ UNCHANGED <<vector_docs, io_failed, op, key, val>>
    /\ UNCHANGED <<apiVars, worldVars, brainVars>>

\* A save_memory without the except clause of lines 75-77: the IOError leaves
\* the with block, which releases the lock, and goes to the caller.
SaveMemoryUncaught(t) ==
    /\ pc[t] = "sm_body"
    /\ arg[t].kind # "none"
    /\ Rebind(t, SomeCache(ArgDict(t)))
    /\ UNCHANGED memory_file
    /\ io_failed' = TRUE
    /\ saved' = Saved(TRUE, ArgDict(t))
    /\ memory_lock' = 0
    /\ Goto(t, "raise")
    /\ UNCHANGED <<cache_dirty, vector_docs, stack, op, key, val, ret>>
    /\ UNCHANGED <<apiVars, worldVars, brainVars>>

\* save_memory, lines 75-77: open() or the write raises IOError.
SaveMemoryIOError(t) ==
    /\ pc[t] = "sm_body"
    /\ arg[t].kind # "none"
    /\ Rebind(t, SomeCache(ArgDict(t)))
    /\ \/ UNCHANGED memory_file          \* open() failed: the file is as it was
       \/ memory_file' = TruncatedFile   \* the write failed after open() truncated
    /\ cache_dirty' = TRUE
    /\ io_failed' = TRUE
    /\ saved' = Saved(TRUE, ArgDict(t))
    /\ memory_lock' = 0
    /\ Return(t, NoRet)
    /\ UNCHANGED <<vector_docs, op, key, val>>
    /\ UNCHANGED <<apiVars, worldVars, brainVars>>

\* save_memory(None): memory.copy() raises AttributeError inside the with
\* block, which releases the lock.
SaveMemoryRaise(t) ==
    /\ pc[t] = "sm_body"
    /\ arg[t].kind = "none"
    /\ memory_lock' = 0
    /\ Goto(t, "raise")
    /\ UNCHANGED <<memory_cache, cache_dirty, memory_file, vector_docs, io_failed, saved,
                   stack, op, key, val, arg, ret>>
    /\ UNCHANGED <<apiVars, worldVars, brainVars>>

\* remember, lines 86-90, under the lock: load the cache when it is None
\* (pc "rem_loaded" once load_memory has returned), store the fact, leave
\* the with block.
RememberBody(t) ==
    /\ pc[t] \in {"rem_body", "rem_loaded"}
    /\ IF pc[t] = "rem_body" /\ memory_cache.none
       THEN /\ Call(t, "lm_acquire", "rem_loaded")
            /\ UNCHANGED <<memory_lock, memory_cache, arg, ret>>
       ELSE /\ IF pc[t] = "rem_loaded"
               THEN Rebind(t, SomeCache([ret[t].d EXCEPT ![key[t]] = val[t]]))
               ELSE /\ memory_cache' = SomeCache([memory_cache.d EXCEPT ![key[t]] = val[t]])
                    /\ UNCHANGED arg
            /\ memory_lock' = 0
            /\ Goto(t, "rem_save")
            /\ ret' = [ret EXCEPT ![t] = NoRet]
            /\ UNCHANGED stack
    /\ UNCHANGED <<cache_dirty, memory_file, vector_docs, io_failed, saved, op, key, val>>
    /\ UNCHANGED <<apiVars, worldVars, brainVars>>

\* remember, line 93: save_memory(_memory_cache), the global read outside the lock.
RememberSave(t) ==
    /\ pc[t] = "rem_save"
    /\ arg' = [arg EXCEPT ![t] = IF memory_cache.none THEN NoArg ELSE AliasArg]
    /\ Call(t, "sm_acquire", "rem_vector")
    /\ UNCHANGED <<memVars, op, key, val, ret>>
    /\ UNCHANGED <<apiVars, worldVars, brainVars>>

\* The document remember stores for a fact: f"{key} is {value}", metadata key.
MemoryText(k, v) == <<k, v>>

\* remember, lines 96-101: mirror into the semantic index, return True.
RememberVector(t) ==
    /\ pc[t] = "rem_vector"
    /\ \/ /\ Len(vector_docs) < MaxDocs
          /\ vector_docs' = Append(vector_docs, MemoryText(key[t], val[t]))
       \/ \* no collection, or the embedding or the add failed: logged
          UNCHANGED vector_docs
    /\ Return(t, RetVal("True"))
    /\ UNCHANGED <<memory_lock, memory_cache, cache_dirty, memory_file, io_failed, saved,
                   op, key, val, arg>>
    /\ UNCHANGED <<apiVars, worldVars, brainVars>>

\* recall, lines 106-107: memory.get(key) on the copy load_memory returned.
RecallGet(t) ==
    /\ pc[t] = "rec_get"
    /\ Return(t, RetVal(Get(ret[t].d, key[t])))
    /\ UNCHANGED <<memVars, op, key, val, arg>>
    /\ UNCHANGED <<apiVars, worldVars, brainVars>>

\* forget, lines 114-121, under the lock: load the cache when it is None
\* ("fgt_loaded" once load_memory has returned), delete the key and save
\* ("fgt_saved" once save_memory has returned), or return False.
ForgetBody(t) ==
    /\ pc[t] \in {"fgt_body", "fgt_loaded", "fgt_saved"}
    /\ IF pc[t] = "fgt_body" /\ memory_cache.none
       THEN /\ Call(t, "lm_acquire", "fgt_loaded")
            /\ UNCHANGED <<memory_lock, memory_cache, arg, ret>>
       ELSE IF pc[t] = "fgt_saved"
       THEN /\ memory_lock' = 0
            /\ Return(t, RetVal("True"))
            /\ UNCHANGED <<memory_cache, arg>>
       ELSE LET cache == IF pc[t] = "fgt_loaded" THEN ret[t].d ELSE memory_cache.d IN
            IF Get(cache, key[t]) # Absent
            THEN /\ memory_cache' = SomeCache([cache EXCEPT ![key[t]] = Absent])
                 /\ arg' = [u \in Threads |->
                              IF u = t THEN AliasArg
                              ELSE IF pc[t] = "fgt_loaded" THEN Detach(arg[u]) ELSE arg[u]]
                 /\ Call(t, "sm_acquire", "fgt_saved")
                 /\ ret' = [ret EXCEPT ![t] = NoRet]
                 /\ UNCHANGED memory_lock
            ELSE /\ IF pc[t] = "fgt_loaded"
                    THEN Rebind(t, SomeCache(cache))
                    ELSE UNCHANGED <<memory_cache, arg>>
                 /\ memory_lock' = 0
                 /\ Return(t, RetVal("False"))
    /\ UNCHANGED <<cache_dirty, memory_file, vector_docs, io_failed, saved, op, key, val>>
    /\ UNCHANGED <<apiVars, worldVars, brainVars>>

\* clear_cache, lines 152-153, under the lock.
ClearCacheBody(t) ==
    /\ pc[t] = "cc_body"
    /\ Rebind(t, NoneCache)
    /\ saved' = IF saved.failed THEN [saved EXCEPT !.lost = TRUE] ELSE saved
    /\ memory_lock' = 0
    /\ Return(t, NoRet)
    /\ UNCHANGED <<cache_dirty, memory_file, vector_docs, io_failed, op, key, val>>
    /\ UNCHANGED <<apiVars, worldVars, brainVars>>

\* ------------------------------------------------- difflib (automation.py)
\* SequenceMatcher.find_longest_match without junk: the longest block
\* a[i..i+k-1] = b[j..j+k-1], the earliest in a, then the earliest in b.
Min(x, y) == IF x <= y THEN x ELSE y

CommonBlocks(a, b) ==
    {m \in (1..Len(a)) \X (1..Len(b)) \X (1..Min(Len(a), Len(b))) :
        /\ m[1] + m[3] - 1 <= Len(a)
        /\ m[2] + m[3] - 1 <= Len(b)
        /\ SubSeq(a, m[1], m[1] + m[3] - 1) = SubSeq(b, m[2], m[2] + m[3] - 1)}

find_longest_match(a, b) ==
    LET blocks == CommonBlocks(a, b) IN
    IF blocks = {} THEN <<1, 1, 0>>
    ELSE CHOOSE m \in blocks :
            \A n \in blocks :
                \/ n[3] < m[3]
                \/ n[3] = m[3] /\ m[1] < n[1]
                \/ n[3] = m[3] /\ m[1] = n[1] /\ m[2] <= n[2]

\* The number of matched characters: the longest block, then the same to its
\* left and to its right (get_matching_blocks).
RECURSIVE Matches(_, _)
Matches(a, b) ==
    IF a = "" \/ b = "" THEN 0
    ELSE LET m == find_longest_match(a, b) IN
         IF m[3] = 0 THEN 0
         ELSE m[3]
              + Matches(SubSeq(a, 1, m[1] - 1), SubSeq(b, 1, m[2] - 1))
              + Matches(SubSeq(a, m[1] + m[3], Len(a)), SubSeq(b, m[2] + m[3], Len(b)))

\* command_map's keys, in the order of str comparison.
Phrases == <<"lock computer", "open browser", "open vs code", "play music", "tell time">>

\* ratio() = 2.0 * matches / (len(a) + len(b)) >= cutoff = 0.5
Close(phrase, word) == 4 * Matches(phrase, word) >= Len(phrase) + Len(word)

\* ratio(Phrases[i], word) < ratio(Phrases[j], word), or equal and i < j:
\* the order of the (score, phrase) pairs heapq.nlargest sorts.
Closer(i, j, word) ==
    LET mi == Matches(Phrases[i], word)
        mj == Matches(Phrases[j], word)
        ti == Len(Phrases[i]) + Len(word)
        tj == Len(Phrases[j]) + Len(word)
    IN  mi * tj < mj * ti \/ (mi * tj = mj * ti /\ i <= j)

\* get_close_matches, were it to take the close phrase with the lowest ratio.
GetFarthestMatch(word) ==
    LET close == {i \in 1..Len(Phrases) : Close(Phrases[i], word)} IN
    IF close = {} THEN <<>>
    ELSE <<Phrases[CHOOSE j \in close : \A i \in close : Closer(j, i, word)]>>

\* difflib.get_close_matches(word, phrases, n=1, cutoff=0.5): the best phrase
\* in a list, or the empty list.
get_close_matches(word) ==
    LET close == {i \in 1..Len(Phrases) : Close(Phrases[i], word)} IN
    IF close = {} THEN <<>>
    ELSE <<Phrases[CHOOSE j \in close : \A i \in close : Closer(i, j, word)]>>

\* What the user says: utterances for every branch of the dispatch.  The
\* facts they name are within Keys and Vals.
Utterances ==
    {"Remember that my favorite color is blue",
     "remember that the sky",
     "What do you know about my favorite color",
     "forget my favorite color",
     "what do you remember",
     "add event dentist tomorrow at 3pm",
     "add meeting standup at 10am",
     "what's the weather in berlin",
     "delete file report",
     "find report file",
     "check system status",
     "status report",
     "remind me to check system status",
     "opn browser",
     "tell me a joke",
     "completely unrelated command xyz123",
     "who wrote hamlet"}

\* s.lower().strip(), worked out once for the utterances.
LowerStripped == [u \in Utterances |-> Strip(Lower(u))]

Texts == {LowerStripped[u] : u \in Utterances}

Normalized(s) ==
    IF s \in Utterances THEN LowerStripped[s]
    ELSE IF s \in Texts THEN s
    ELSE Strip(Lower(s))

\* ------------------------------------------------ an exception on its way
\* A raise statement, or a callee that raised, leaves the thread at "raise"
\* (inside the store) or at "gr_raise" (inside get_response's try block).
RaiseLabels == {"raise", "gr_raise"}

\* An outcome of a handler that is an exception instead of a value.
Raised == [kind |-> "raise", d |-> EmptyDict, v |-> Absent]

\* The return labels of the calls get_response makes inside its try block.
TryFrames == {"gr_memory_ret", "gr_query", "gr_reply", "gr_done"}

\* Caught, were the try block to cover the calls of get_response only and
\* not the statements between them.
CaughtInCalls(t) ==
    pc[t] = "raise" /\ \E i \in 1..Len(stack[t]) : stack[t][i] \in TryFrames

\* The exception of thread t is inside `try:` of get_response, lines 52-72.
Caught(t) ==
    \/ pc[t] = "gr_raise"
    \/ pc[t] = "raise" /\ \E i \in 1..Len(stack[t]) : stack[t][i] \in TryFrames

\* ------------------------------------------------- the stages of a dispatch
StageOrder == <<"memory", "service", "system", "llm">>

\* One stage of the dispatch in progress: "running", or how it ended
\* ("declined": a falsy result; "yielded": the result r, returned; "raised").
Stage(name, out, r) == [stage |-> name, out |-> out, r |-> r]

Tried(t, name, out, r) == trace' = [trace EXCEPT ![t] = Append(@, Stage(name, out, r))]

Settle(t, out, r) ==
    LET tr == trace[t] IN
    trace' = [trace EXCEPT ![t] =
                [i \in 1..Len(tr) |-> IF i = Len(tr) THEN Stage(tr[i].stage, out, r) ELSE tr[i]]]

Outcome(r) ==
    IF r.kind = "raise" THEN "raised" ELSE IF Truthy(r) THEN "yielded" ELSE "declined"

\* lower = text.lower().strip(), get_response line 50.
GrLower(t) == Normalized(text[t])

\* ------------------------------------- handle_memory_commands (lines 16-55)
\* lower = text.lower().strip(), of the text get_response hands over.
HmLower(t) == Normalized(GrLower(t))

IsRemember(lower) == StartsWith(lower, "remember that")

IsRecall(lower) ==
    Contains(lower, "what do you remember about") \/ Contains(lower, "what do you know about")

\* IsForget, were the handler to take the bare word only.
IsForgetExact(lower) == lower = "forget"

IsForget(lower) == StartsWith(lower, "forget")

IsList(lower) ==
    Contains(lower, "what do you remember") \/ Contains(lower, "list everything you remember")

\* key.replace("my ", "your ")
KeyForReply(k) == Replace(k, "my ", "your ")

\* The keys of a dict in the order the model lists them.
KeyOrder == <<"my favorite color", "name">>

\* "\n".join([f"{k}: {v}" for k, v in data.items()])
RECURSIVE JoinItems(_, _)
JoinItems(d, i) ==
    IF i > Len(KeyOrder) THEN ""
    ELSE LET k == KeyOrder[i]
             rest == JoinItems(d, i + 1)
         IN  IF d[k] = Absent THEN rest
             ELSE k \o ": " \o d[k] \o (IF rest = "" THEN "" ELSE "\n" \o rest)

\* The first statements of the handler, up to the call of a store function
\* or, where there is none, up to the return.
HandleMemoryCommands(t) ==
    /\ pc[t] = "hm_entry"
    /\ LET lower == HmLower(t) IN
       IF IsRemember(lower)
       THEN LET fact == SplitOnce(lower, "remember that")[2] IN
            IF Contains(fact, " is ")
            THEN /\ key' = [key EXCEPT ![t] = Strip(SplitOnce(fact, " is ")[1])]
                 /\ val' = [val EXCEPT ![t] = Strip(SplitOnce(fact, " is ")[2])]
                 /\ Call(t, "rem_acquire", "hm_remember")
                 /\ UNCHANGED ret
            ELSE /\ Return(t, RetStr("Please phrase it like: 'Remember that [key] is [value]'."))
                 /\ UNCHANGED <<key, val>>
       ELSE IF IsRecall(lower)
       THEN /\ key' = [key EXCEPT ![t] =
                    Strip(Replace(Replace(lower, "what do you remember about", ""),
                                  "what do you know about", ""))]
            /\ pc' = [pc EXCEPT ![t] = "lm_acquire"]
            /\ stack' = [stack EXCEPT ![t] = <<"rec_get", "hm_recall">> \o @]
            /\ UNCHANGED <<val, ret>>
       ELSE IF IsForget(lower)
       THEN /\ key' = [key EXCEPT ![t] = Strip(Replace(lower, "forget", ""))]
            /\ Call(t, "fgt_acquire", "hm_forget")
            /\ UNCHANGED <<val, ret>>
       ELSE IF IsList(lower)
       THEN /\ Call(t, "lm_acquire", "hm_list")
            /\ UNCHANGED <<key, val, ret>>
       ELSE /\ Return(t, NoRet)
            /\ UNCHANGED <<key, val>>
    /\ UNCHANGED <<memVars, apiVars, worldVars, op, arg, brainVars>>

\* The reply the handler builds from what the store function returned.
HmReply(t) ==
    /\ pc[t] \in {"hm_remember", "hm_recall", "hm_forget", "hm_list"}
    /\ LET reply ==
             CASE pc[t] = "hm_remember" ->
                    "I'll remember that " \o KeyForReply(key[t]) \o " is " \o val[t] \o "."
               [] pc[t] = "hm_recall" ->
                    IF ret[t].v # Absent /\ ret[t].v # ""
                    THEN Capitalize(KeyForReply(key[t])) \o " is " \o ret[t].v \o "."
                    ELSE "I don't remember anything about " \o KeyForReply(key[t]) \o "."
               [] pc[t] = "hm_forget" ->
                    IF ret[t].v = "True"
                    THEN "I've forgotten everything about " \o key[t] \o "."
                    ELSE "I don't remember anything about " \o key[t] \o " to forget."
               [] pc[t] = "hm_list" ->
                    IF ret[t].d = EmptyDict
                    THEN "I don't have anything stored yet."
                    ELSE "Here is what I remember:\n" \o JoinItems(ret[t].d, 1)
       IN Return(t, RetStr(reply))
    /\ UNCHANGED <<memVars, apiVars, worldVars, op, key, val, arg, brainVars>>

\* --------------------------------------------------- the service handlers
\* A handler's possible outcomes for one text: the values it can return and
\* Raised, over everything the network, the clock, the file system and the
\* console can answer.  Text a handler formats from such an answer is shown
\* for one answer.

\* handle_calendar_command
CalendarTriggers ==
    {"add meeting", "add event", "schedule meeting", "schedule event", "calendar add"}

handle_calendar_command(user_input) ==
    IF ~ContainsAny(Lower(user_input), CalendarTriggers) THEN {NoRet}
    ELSE {RetStr("I need the 'dateparser' library to handle calendar commands. Please install it with: pip install dateparser"),
          RetStr("I need more information to add this event. Please try a command like: ..."),
          RetStr("I understood you want to add 'Dentist', but I couldn't determine when. ..."),
          RetStr("'Dentist' has been added to your calendar for Friday, June 06 at 03:00 PM."),
          RetStr("Calendar service is not configured. Please check your Google Calendar setup."),
          RetStr("Sorry, I couldn't add that event: HttpError")}

\* get_weather(location), for a location that is a str: a cached or a fresh
\* report, the fixed failure text, or the exception of response.json() and
\* of the subscripts, which nothing in get_weather catches.
get_weather(location) ==
    {RetStr("Weather in " \o location \o ": clear sky. Temperature: 20C (feels like 19C). Humidity: 50%."),
     RetStr("Could not retrieve weather data for " \o location \o "."),
     Raised}

WeatherKeywords ==
    {"weather", "how's the weather", "what's the weather", "current weather",
     "weather update", "weather report", "forecast", "temperature"}

\* user_input.split("in")[1]: the text between the first "in" and the next.
SecondPart(s) ==
    LET rest == SplitOnce(s, "in")[2] IN
    IF Contains(rest, "in") THEN SplitOnce(rest, "in")[1] ELSE rest

\* handle_weather_command
handle_weather_command(user_input) ==
    LET lower == Lower(user_input) IN
    IF ~ContainsAny(lower, WeatherKeywords) THEN {NoRet}
    ELSE IF Contains(lower, "in") THEN get_weather(Strip(SecondPart(lower)))
    ELSE {RetStr("Could not determine your location. Please specify a city.")}
         \cup get_weather("Berlin, Germany")

\* handle_file_command
handle_file_command(user_input) ==
    LET lower == Lower(user_input) IN
    IF StartsWith(lower, "find ")
    THEN {RetList("/home/user/" \o Strip(Replace(lower, "find ", ""))), RetStr("No files found.")}
    ELSE IF StartsWith(lower, "open ")
    THEN {RetStr("File found and opened"), RetStr("File not found.")}
    ELSE IF StartsWith(lower, "delete ")
    THEN {RetStr("File deleted successfully: /home/user/" \o Strip(Replace(lower, "delete ", ""))),
          RetStr("Permission denied: cannot delete /home/user/" \o Strip(Replace(lower, "delete ", ""))),
          RetStr("Cannot delete this path for security reasons."),
          RetStr("Delete operation canceled."),
          RetStr("File not found."),
          Raised}     \* input() without a console: EOFError
    ELSE IF StartsWith(lower, "list files in ")
    THEN {RetStr("Files in " \o Strip(Replace(lower, "list files in ", "")) \o ":\nnotes.txt"),
          RetStr("No files found in " \o Strip(Replace(lower, "list files in ", "")) \o "."),
          RetStr("Folder not found.")}
    ELSE {NoRet}

\* handle_system_monitor_command
MonitorKeywords ==
    {"system monitor", "system status", "how is the system", "system stats",
     "system information", "check systems"}

handle_system_monitor_command(user_input) ==
    LET lower == Lower(user_input) IN
    IF ContainsAny(lower, MonitorKeywords)
    THEN {RetStr("CPU Usage: 12.5 percent. RAM: 4.2 out of 16.0 gigabytes used (26.3 percent). ...")}
    ELSE IF Contains(lower, "launch system overlay") \/ Contains(lower, "show monitor")
    THEN {RetStr("Launching system overlay...")}
    ELSE {NoRet}

\* What handle_service_commands does with a handler: it calls it once and
\* returns what it returns.
Handled(handler, outcomes) == {[called |-> <<handler>>, r |-> r] : r \in outcomes}

\* handle_service_commands, lines 84-93: the categories after calendar.
LaterCategories(txt) ==
    IF ContainsAny(txt, {"weather", "forecast", "temperature"})
    THEN Handled("handle_weather_command", handle_weather_command(txt))
    ELSE IF ContainsAny(txt, {"file", "document", "upload", "download"})
    THEN Handled("handle_file_command", handle_file_command(txt))
    ELSE IF ContainsAny(txt, {"system", "monitor", "status"})
    THEN Handled("handle_system_monitor_command", handle_system_monitor_command(txt))
    ELSE {[called |-> <<>>, r |-> NoRet]}

\* handle_service_commands, were it to go on to the later categories when
\* the calendar handler declines.
HandleServiceCommandsFallThrough(txt) ==
    IF ContainsAny(txt, {"calendar", "schedule", "remind", "event"})
    THEN {o \in Handled("handle_calendar_command", handle_calendar_command(txt)) : o.r # NoRet}
         \cup (IF NoRet \in handle_calendar_command(txt)
               THEN {[called |-> <<"handle_calendar_command">> \o o.called, r |-> o.r] :
                        o \in LaterCategories(txt)}
               ELSE {})
    ELSE LaterCategories(txt)

\* handle_service_commands, brain.py lines 79-93: the handlers it calls and
\* the value it returns.
handle_service_commands(txt) ==
    IF ContainsAny(txt, {"calendar", "schedule", "remind", "event"})
    THEN Handled("handle_calendar_command", handle_calendar_command(txt))
    ELSE LaterCategories(txt)

\* handle_service_commands(lower), worked out once for the utterances.
ServiceOutcomes == [u \in Texts |-> handle_service_commands(u)]

\* --------------------------------------- weather_service.py: the caches
\* What ip-api.com does with the request of get_location_from_ip: a
\* location, a status other than "success", a RequestException, or a body
\* that is no JSON or lacks a field (ValueError, KeyError).
LocationAnswers ==
    {[kind |-> "ok", data |-> <<"Berlin", "Germany">>],
     [kind |-> "ok", data |-> <<"Paris", "France">>],
     [kind |-> "fail", data |-> NoLocation],
     [kind |-> "exception", data |-> NoLocation],
     [kind |-> "invalid", data |-> NoLocation]}

\* What openweathermap.org does with the request of get_weather: a report,
\* a RequestException, a status other than 200, or a 200 whose body is no
\* JSON or lacks a field.
WeatherAnswers ==
    {[kind |-> "ok", description |-> "clear sky"],
     [kind |-> "ok", description |-> "light rain"],
     [kind |-> "exception", description |-> ""],
     [kind |-> "status", description |-> ""],
     [kind |-> "invalid", description |-> ""]}

\* The locations get_weather is asked for and the texts
\* handle_weather_command is given.
Locations == {"Paris", "paris"}

WeatherTexts ==
    {"what's the weather in berlin", "weather this morning", "weather forecast", "tell me a joke"}

\* f"{location[0]}, {location[1]}"
LocationName(location) == location[1] \o ", " \o location[2]

\* location.lower(), worked out once for the locations that occur.
CacheKey ==
    [l \in Locations \cup {LocationName(a.data) : a \in {b \in LocationAnswers : b.kind = "ok"}}
           \cup {Strip(SecondPart(Lower(u))) : u \in {v \in WeatherTexts : Contains(Lower(v), "in")}}
       |-> Lower(l)]

\* YoungerThan, were an entry as old as the TTL still served.
YoungerOrAsOld(timestamp, ttl) == now - timestamp <= ttl

\* current_time - cached["timestamp"] < ttl
YoungerThan(timestamp, ttl) == now - timestamp < ttl

\* One lookup as the history keeps it: the function, the cache key, the
\* time, the cache entry found, the number of requests sent, the result.
Lookup(fn, k, had, sent, r) ==
    [fn |-> fn, key |-> k, at |-> now, had |-> had, sent |-> sent, r |-> r]

\* get_location_from_ip(), lines 27-54, when the service answers a.
GetLocationFromIp(a) ==
    IF location_cache.data # NoLocation
       /\ YoungerThan(location_cache.timestamp, LOCATION_CACHE_TTL)
    THEN [r |-> location_cache.data, cache |-> location_cache, sent |-> 0]
    ELSE IF a.kind = "ok"
    THEN [r |-> a.data, cache |-> LocationCache(a.data, now), sent |-> 1]
    ELSE [r |-> NoLocation, cache |-> location_cache, sent |-> 1]

\* The entry of _location_cache as the history keeps it.
LocationEntry ==
    IF location_cache.data = NoLocation THEN NoCached
    ELSE Cached(LocationName(location_cache.data), location_cache.timestamp)

LocationLookup(o) ==
    Lookup("get_location_from_ip", "", LocationEntry, o.sent,
           IF o.r = NoLocation THEN NoRet ELSE RetStr(LocationName(o.r)))

\* The report get_weather formats from the body of a 200 response.
WeatherReport(location, a) ==
    "Weather in " \o location \o ": " \o a.description
        \o ". Temperature: 20C (feels like 19C). Humidity: 50%."

\* get_weather(location), lines 57-105, for a location that is a str, when
\* the service answers a.
GetWeather(location, a) ==
    LET cache_key == CacheKey[location]
        failed == RetStr("Could not retrieve weather data for " \o location \o ".")
    IN  IF cache_key \in DOMAIN weather_cache
           /\ YoungerThan(weather_cache[cache_key].timestamp, WEATHER_CACHE_TTL)
        THEN [r |-> RetStr(weather_cache[cache_key].response), cache |-> weather_cache, sent |-> 0]
        ELSE IF a.kind \in {"exception", "status"}
        THEN [r |-> failed, cache |-> weather_cache, sent |-> 1]
        ELSE IF a.kind = "invalid"
        THEN [r |-> Raised, cache |-> weather_cache, sent |-> 1]
        ELSE [r |-> RetStr(WeatherReport(location, a)),
              cache |-> [k \in DOMAIN weather_cache \cup {cache_key} |->
                           IF k = cache_key THEN Cached(WeatherReport(location, a), now)
                           ELSE weather_cache[k]],
              sent |-> 1]

WeatherLookup(location, o) ==
    LET cache_key == CacheKey[location] IN
    Lookup("get_weather", cache_key,
           IF cache_key \in DOMAIN weather_cache THEN weather_cache[cache_key] ELSE NoCached,
           o.sent, o.r)

\* The clock goes on.
Ticks == {120, 121, 179, 180}

Tick ==
    /\ \E d \in Ticks :
          /\ now + d <= StartTime + MaxElapsed
          /\ now' = now + d
    /\ UNCHANGED <<weather_cache, location_cache, lookups>>
    /\ UNCHANGED <<memVars, apiVars, thrVars, brainVars, fileVars, sideVars>>

\* A caller calls get_weather(location), as test_get_weather_caching does.
CallGetWeather ==
    /\ Len(lookups) < MaxLookups
    /\ \E l \in Locations, a \in WeatherAnswers :
          LET o == GetWeather(l, a) IN
          /\ weather_cache' = o.cache
          /\ lookups' = Append(lookups, WeatherLookup(l, o))
    /\ UNCHANGED <<now, location_cache>>
    /\ UNCHANGED <<memVars, apiVars, thrVars, brainVars, fileVars, sideVars>>

\* A caller calls get_location_from_ip(), as
\* test_get_location_from_ip_caching does.
CallGetLocationFromIp ==
    /\ Len(lookups) < MaxLookups
    /\ \E a \in LocationAnswers :
          LET o == GetLocationFromIp(a) IN
          /\ location_cache' = o.cache
          /\ lookups' = Append(lookups, LocationLookup(o))
    /\ UNCHANGED <<now, weather_cache>>
    /\ UNCHANGED <<memVars, apiVars, thrVars, brainVars, fileVars, sideVars>>

\* clear_weather_cache(), lines 108-113
CallClearWeatherCache ==
    /\ Len(lookups) < MaxLookups
    /\ weather_cache' = EmptyCache
    /\ location_cache' = LocationCache(NoLocation, 0)
    /\ lookups' = Append(lookups, Lookup("clear_weather_cache", "", NoCached, 0, NoRet))
    /\ UNCHANGED now
    /\ UNCHANGED <<memVars, apiVars, thrVars, brainVars, fileVars, sideVars>>

\* What handle_weather_command works out from its text, once per text: has
\* it a keyword, has split("in") more than one part, and parts[1].strip().
WeatherRoute ==
    [u \in WeatherTexts |->
        LET lower == Lower(u) IN
        [keyword |-> ContainsAny(lower, WeatherKeywords),
         parts |-> Contains(lower, "in"),
         location |-> IF Contains(lower, "in") THEN Strip(SecondPart(lower)) ELSE ""]]

HandlerLookup(u, sent, r) == Lookup("handle_weather_command", u, NoCached, sent, r)

\* A caller calls handle_weather_command(u), weather_commands.py lines
\* 11-46, with the caches as they are.
CallHandleWeatherCommand ==
    /\ Len(lookups) < MaxLookups
    /\ \E u \in WeatherTexts, la \in LocationAnswers, wa \in WeatherAnswers :
          LET route == WeatherRoute[u]
              found == GetLocationFromIp(la)
              o == GetWeather(IF route.parts THEN route.location ELSE LocationName(found.r), wa)
          IN  IF ~route.keyword
              THEN /\ lookups' = Append(lookups, HandlerLookup(u, 0, NoRet))
                   /\ UNCHANGED <<weather_cache, location_cache>>
              ELSE IF route.parts
              THEN /\ weather_cache' = o.cache
                   /\ lookups' = lookups \o <<WeatherLookup(route.location, o),
                                               HandlerLookup(u, o.sent, o.r)>>
                   /\ UNCHANGED location_cache
              ELSE IF found.r = NoLocation
              THEN /\ location_cache' = found.cache
                   /\ lookups' = lookups \o
                         <<LocationLookup(found),
                           HandlerLookup(u, found.sent,
                               RetStr("Could not determine your location. Please specify a city."))>>
                   /\ UNCHANGED weather_cache
              ELSE /\ location_cache' = found.cache
                   /\ weather_cache' = o.cache
                   /\ lookups' = lookups \o
                         <<LocationLookup(found), WeatherLookup(LocationName(found.r), o),
                           HandlerLookup(u, found.sent + o.sent, o.r)>>
    /\ UNCHANGED now
    /\ UNCHANGED <<memVars, apiVars, thrVars, brainVars, fileVars, sideVars>>

\* ------------------------ handle_file_command over the file system
\* The texts the handler is given, and what the console hands to input();
\* NoInput is a console that is closed (EOFError).
FileTexts == {"delete report", "Delete NOTES", "delete budget", "find report", "open notes"}

NoInput == "<EOF>"

Typed == {"yes", " YES ", "y", "no", ""}

\* What the handler works out from its text, once per text: the branch it
\* takes and the name it looks for.
FileRoute ==
    [u \in FileTexts |->
        LET lower == Lower(u) IN
        IF StartsWith(lower, "find ")
        THEN [branch |-> "find", name |-> Strip(Replace(lower, "find ", ""))]
        ELSE IF StartsWith(lower, "open ")
        THEN [branch |-> "open", name |-> Strip(Replace(lower, "open ", ""))]
        ELSE IF StartsWith(lower, "delete ")
        THEN [branch |-> "delete", name |-> Strip(Replace(lower, "delete ", ""))]
        ELSE [branch |-> "none", name |-> ""]]

\* filename_lower in name.lower(), once per text and path.
NameMatches == [u \in FileTexts |-> {p \in Paths : Contains(Lower(PathName[p]), FileRoute[u].name)}]

\* find_file(filename): the files under the home directory whose name
\* contains filename; os.walk lists them in no order the program controls.
find_file(u) == {p \in NameMatches[u] : fs[p] = "file"}

\* is_safe_path(path), once per path.
is_safe_path ==
    [p \in Paths |->
        ~ContainsAny(Lower(p), {"windows\\system32", "windows\\syswow64", "program files",
                                "\\system volume information"})]

\* Confirmed, were every answer that starts with "y" taken for a yes.
ConfirmedByInitial(typed) == StartsWith(Lower(Strip(typed)), "y")

\* confirm = input(...).strip().lower(); confirm == "yes"
Confirmed(typed) == Lower(Strip(typed)) = "yes"

\* A call that has ended, as the history keeps it: its text, whether it read
\* a confirmation and which, the file it chose, whether it removed it, what
\* was at that path when it last looked, and its result.
FileCall(asked, typed, removed, was, r) ==
    [text |-> file_command.text, asked |-> asked, typed |-> typed,
     target |-> file_command.target, removed |-> removed, was |-> was, r |-> r]

Finish(call) ==
    /\ file_calls' = Append(file_calls, call)
    /\ file_command' = NoFileCommand

\* A caller calls handle_file_command(u), file_assistant_commands.py lines
\* 13-73, up to the prompt of the delete branch.
CallHandleFileCommand ==
    /\ file_command.pc = "idle"
    /\ Len(file_calls) < MaxFileCalls
    /\ \E u \in FileTexts :
          LET branch == FileRoute[u].branch
              ended(r) == [text |-> u, asked |-> FALSE, typed |-> "", target |-> "",
                           removed |-> FALSE, was |-> "none", r |-> r]
          IN  IF branch = "delete" /\ find_file(u) # {}
              THEN /\ \E target \in find_file(u) :
                         file_command' = FileCommand("confirm", u, target, "")
                   /\ UNCHANGED file_calls
              ELSE /\ file_command' = NoFileCommand
                   /\ \E r \in (CASE branch = "delete" -> {RetStr("File not found.")}
                                  [] branch = "find" ->
                                        IF find_file(u) = {} THEN {RetStr("No files found.")}
                                        ELSE {RetList(p) : p \in find_file(u)}
                                  [] branch = "open" ->
                                        IF find_file(u) = {} THEN {RetStr("File not found.")}
                                        ELSE {RetStr("File found and opened")}
                                  [] OTHER -> {NoRet}) :
                         file_calls' = Append(file_calls, ended(r))
    /\ UNCHANGED fs
    /\ UNCHANGED <<memVars, apiVars, thrVars, brainVars, weatherVars, sideVars>>

\* lines 54-58: the confirmation is read; anything but a yes cancels.
ReadConfirmation ==
    /\ file_command.pc = "confirm"
    /\ \E typed \in Typed \cup {NoInput} :
          IF typed = NoInput
          THEN Finish(FileCall(FALSE, "", FALSE, fs[file_command.target], Raised))
          ELSE IF Confirmed(typed)
          THEN /\ file_command' = [file_command EXCEPT !.pc = "delete", !.typed = typed]
               /\ UNCHANGED file_calls
          ELSE Finish(FileCall(TRUE, typed, FALSE, fs[file_command.target],
                               RetStr("Delete operation canceled.")))
    /\ UNCHANGED fs
    /\ UNCHANGED <<memVars, apiVars, thrVars, brainVars, weatherVars, sideVars>>

\* delete_file(path), file_assistant.py lines 179-186: the tests before the
\* removal.
DeleteFileChecks ==
    /\ file_command.pc = "delete"
    /\ LET target == file_command.target
           typed == file_command.typed
       IN  IF ~is_safe_path[target]
           THEN Finish(FileCall(TRUE, typed, FALSE, fs[target],
                                RetStr("Cannot delete this path for security reasons.")))
           ELSE IF fs[target] = "none"
           THEN Finish(FileCall(TRUE, typed, FALSE, fs[target],
                                RetStr("File does not exist: " \o target)))
           ELSE IF fs[target] = "dir"
           THEN Finish(FileCall(TRUE, typed, FALSE, fs[target],
                   RetStr("Cannot delete directories with this command. Use a file manager for directories.")))
           ELSE /\ file_command' = [file_command EXCEPT !.pc = "remove"]
                /\ UNCHANGED file_calls
    /\ UNCHANGED fs
    /\ UNCHANGED <<memVars, apiVars, thrVars, brainVars, weatherVars, sideVars>>

\* delete_file, lines 188-197: os.remove(path) removes a file, or raises
\* (PermissionError; OSError for a directory or for nothing at the path).
OsRemove ==
    /\ file_command.pc = "remove"
    /\ LET target == file_command.target
           typed == file_command.typed
       IN  IF fs[target] = "file"
           THEN \/ /\ fs' = [fs EXCEPT ![target] = "none"]
                   /\ Finish(FileCall(TRUE, typed, TRUE, "file",
                                      RetStr("File deleted successfully: " \o target)))
                \/ /\ UNCHANGED fs
                   /\ Finish(FileCall(TRUE, typed, FALSE, "file",
                                      RetStr("Permission denied: cannot delete " \o target)))
           ELSE /\ UNCHANGED fs
                /\ Finish(FileCall(TRUE, typed, FALSE, fs[target],
                                   RetStr("Error deleting file: [Errno] " \o target)))
    /\ UNCHANGED <<memVars, apiVars, thrVars, brainVars, weatherVars, sideVars>>

\* Another program creates, removes or replaces what is at a path.
FsChange ==
    /\ \E p \in Paths, k \in {"none", "file", "dir"} :
          /\ fs[p] # k
          /\ fs' = [fs EXCEPT ![p] = k]
    /\ UNCHANGED <<file_command, file_calls>>
    /\ UNCHANGED <<memVars, apiVars, thrVars, brainVars, weatherVars, sideVars>>

\* --------------------------------------- find_file and cancel_search
\* filename_lower in name.lower(), for the name the callers look for.
SearchName == "report"

MatchesIn(i) ==
    {WalkDirs[i].root \o "/" \o name : name \in {n \in WalkDirs[i].files : Contains(Lower(n), SearchName)}}

\* The matches of a walk that has gone through the first n directories.
MatchesUpTo(n) == UNION {MatchesIn(i) : i \in 1..n}

\* find_file, lines 90-104: _reset_search() clears the flag for every walk.
FindFileBegin(t) ==
    /\ walk[t].pc = "idle"
    /\ searches < MaxSearches
    /\ searches' = searches + 1
    /\ search_cancelled' = FALSE
    /\ walk' = [walk EXCEPT ![t] = Walk("walk", 0, {}, -1)]
    /\ UNCHANGED embedVars
    /\ UNCHANGED <<memVars, apiVars, thrVars, brainVars, weatherVars, fileVars>>

\* find_file, lines 106-123: one turn of `for root, dirs, files in os.walk`:
\* break when the flag is set, else go through the files of the directory.
\* (max_results is 100, more than the tree holds.)
FindFileStep(t) ==
    /\ walk[t].pc = "walk"
    /\ LET w == walk[t] IN
       IF search_cancelled \/ w.visited = Len(WalkDirs)
       THEN walk' = [walk EXCEPT ![t].pc = "done"]
       ELSE walk' = [walk EXCEPT ![t] =
                        Walk("walk", w.visited + 1, w.matches \cup MatchesIn(w.visited + 1),
                             w.cancelled_at)]
    /\ UNCHANGED <<search_cancelled, searches, embedVars>>
    /\ UNCHANGED <<memVars, apiVars, thrVars, brainVars, weatherVars, fileVars>>

\* find_file, line 134: return matches.
FindFileReturn(t) ==
    /\ walk[t].pc = "done"
    /\ walk' = [walk EXCEPT ![t] = NoWalk]
    /\ UNCHANGED <<search_cancelled, searches, embedVars>>
    /\ UNCHANGED <<memVars, apiVars, thrVars, brainVars, weatherVars, fileVars>>

\* cancel_search(), lines 30-33, called from another thread.
CancelSearch ==
    /\ ~search_cancelled
    /\ search_cancelled' = TRUE
    /\ walk' = [t \in Threads |->
                  IF walk[t].pc = "walk" /\ walk[t].cancelled_at = -1
                  THEN [walk[t] EXCEPT !.cancelled_at = walk[t].visited]
                  ELSE walk[t]]
    /\ UNCHANGED <<searches, embedVars>>
    /\ UNCHANGED <<memVars, apiVars, thrVars, brainVars, weatherVars, fileVars>>

\* ------------------------------- embeddings_manager.py: lazy initialization
EmbedRest == UNCHANGED <<memVars, apiVars, thrVars, brainVars, weatherVars, fileVars, searchVars>>

\* A thread calls store_memory_vector(...) or search_memory(...), lines 67
\* and 91: _ensure_initialized().
CallVectorFunction(t) ==
    /\ embed[t].pc = "idle"
    /\ vector_calls < MaxVectorCalls
    /\ vector_calls' = vector_calls + 1
    /\ \E fn \in {"store_memory_vector", "search_memory"} :
          embed' = [embed EXCEPT ![t] = Embed("ei_check", fn, "")]
    /\ UNCHANGED <<initialized, openai_client, collection, init_failed>>
    /\ EmbedRest

\* _ensure_initialized, lines 30-31: if _initialized: return
EnsureInitializedCheck(t) ==
    /\ embed[t].pc = "ei_check"
    /\ embed' = [embed EXCEPT ![t].pc = IF initialized THEN "body" ELSE "ei_set"]
    /\ UNCHANGED <<initialized, openai_client, collection, init_failed, vector_calls>>
    /\ EmbedRest

\* _ensure_initialized, line 33: _initialized = True, before anything is
\* initialized.
EnsureInitializedSet(t) ==
    /\ embed[t].pc = "ei_set"
    /\ initialized' = TRUE
    /\ embed' = [embed EXCEPT ![t].pc = "ei_openai"]
    /\ UNCHANGED <<openai_client, collection, init_failed, vector_calls>>
    /\ EmbedRest

\* _ensure_initialized, lines 35-40: the client, or a logged failure.
InitOpenai(t) ==
    /\ embed[t].pc = "ei_openai"
    /\ \/ openai_client' = TRUE
       \/ UNCHANGED openai_client
    /\ embed' = [embed EXCEPT ![t].pc = "ei_chroma"]
    /\ UNCHANGED <<initialized, collection, init_failed, vector_calls>>
    /\ EmbedRest

\* _ensure_initialized, lines 42-48: the collection, or a logged failure.
InitChroma(t) ==
    /\ embed[t].pc = "ei_chroma"
    /\ \/ collection' = TRUE /\ UNCHANGED init_failed
       \/ init_failed' = TRUE /\ UNCHANGED collection
    /\ embed' = [embed EXCEPT ![t].pc = "body"]
    /\ UNCHANGED <<initialized, openai_client, vector_calls>>
    /\ EmbedRest

\* store_memory_vector, lines 69-87, and search_memory, lines 93-106, after
\* _ensure_initialized has returned: nothing is done without a collection;
\* generate_embedding raises without a client, and every exception is logged.
VectorFunctionBody(t) ==
    /\ embed[t].pc = "body"
    /\ \E out \in (IF ~collection THEN {"skipped"}
                   ELSE IF ~openai_client THEN {"failed"}
                   ELSE {IF embed[t].fn = "search_memory" THEN "found" ELSE "stored", "failed"}) :
          embed' = [embed EXCEPT ![t] = Embed("done", embed[t].fn, out)]
    /\ UNCHANGED <<initialized, openai_client, collection, init_failed, vector_calls>>
    /\ EmbedRest

VectorFunctionReturn(t) ==
    /\ embed[t].pc = "done"
    /\ embed' = [embed EXCEPT ![t] = NoEmbed]
    /\ UNCHANGED <<initialized, openai_client, collection, init_failed, vector_calls>>
    /\ EmbedRest

\* ------------------------------------------------ run_command (automation)
\* What the function command_map holds for a phrase can do.
command_map(command) ==
    CASE command = "open browser" -> {RetStr("Opening your browser, sir.")}
      [] command = "open vs code" -> {RetStr("Launching Visual Studio Code.")}
      [] command = "tell time" -> {RetStr("The current time is 09:30 AM.")}
      [] command = "play music" ->
            {RetStr("Music path not configured. Please set MUSIC_PATH in your .env file."),
             RetStr("Playing your favorite track."),
             Raised}    \* os.startfile exists on Windows only
      [] command = "lock computer" -> {RetStr("Locking your computer, sir.")}

\* log_command(input_text, matched_command): one entry of command_log.txt.
LogEntry(input_text, matched_command) == [input |-> input_text, matched |-> matched_command]

\* run_command(user_input): the entries it appends to the log, the commands
\* of command_map it calls and its result.  open() of the log can fail
\* before anything is written.
run_command(user_input) ==
    LET lower == Lower(user_input)
        best_match == get_close_matches(lower)
    IN  {[log |-> <<>>, called |-> <<>>, r |-> Raised]}
        \cup
        (IF best_match # <<>>
         THEN {[log |-> <<LogEntry(lower, Absent), LogEntry(lower, best_match[1])>>,
                called |-> best_match, r |-> r] :
                  r \in command_map(best_match[1])}
         ELSE {[log |-> <<LogEntry(lower, Absent)>>, called |-> <<>>, r |-> NoRet]})

\* run_command(lower), worked out once for the utterances.
CommandOutcomes == [u \in Texts |-> run_command(u)]

\* ------------------------------------------------------ brain.py: history
MAX_HISTORY == 10

SYSTEM_PROMPT == "You are A.L.F.R.E.D, ..."

\* OverLimit, were the loop to stop one entry late.
OverLimitLate(history) == Len(history) > MAX_HISTORY * 2 + 1

\* len(_conversation_history) > MAX_HISTORY * 2
OverLimit(history) == Len(history) > MAX_HISTORY * 2

\* add_to_history, line 36: with _history_lock
AddToHistoryAcquire(t) ==
    /\ pc[t] = "ah_acquire"
    /\ history_lock = 0
    /\ history_lock' = t
    /\ Goto(t, "ah_append")
    /\ UNCHANGED <<memVars, apiVars, worldVars, stack, op, key, val, arg, ret>>
    /\ UNCHANGED <<conversation_history, command_log, dispatches, appended, localBrainVars>>

\* add_to_history, line 37
AddToHistoryAppend(t) ==
    /\ pc[t] = "ah_append"
    /\ conversation_history' = Append(conversation_history, harg[t])
    /\ Goto(t, "ah_trim")
    /\ UNCHANGED <<memVars, apiVars, worldVars, stack, op, key, val, arg, ret>>
    /\ UNCHANGED <<history_lock, command_log, dispatches, appended, localBrainVars>>

\* AddToHistoryTrim, were the loop to pop the newest entry, not the oldest.
AddToHistoryTrimNewest(t) ==
    /\ pc[t] = "ah_trim"
    /\ IF OverLimit(conversation_history)
       THEN /\ conversation_history' =
                    SubSeq(conversation_history, 1, Len(conversation_history) - 1)
            /\ UNCHANGED <<history_lock, pc, stack, ret>>
       ELSE /\ history_lock' = 0
            /\ Return(t, NoRet)
            /\ UNCHANGED conversation_history
    /\ UNCHANGED <<memVars, apiVars, worldVars, op, key, val, arg>>
    /\ UNCHANGED <<command_log, dispatches, appended, localBrainVars>>

\* add_to_history, lines 39-40: one turn of the while loop, or its exit,
\* which leaves the with block and returns.
AddToHistoryTrim(t) ==
    /\ pc[t] = "ah_trim"
    /\ IF OverLimit(conversation_history)
       THEN /\ conversation_history' = Tail(conversation_history)
            /\ UNCHANGED <<history_lock, pc, stack, ret>>
       ELSE /\ history_lock' = 0
            /\ Return(t, NoRet)
            /\ UNCHANGED conversation_history
    /\ UNCHANGED <<memVars, apiVars, worldVars, op, key, val, arg>>
    /\ UNCHANGED <<command_log, dispatches, appended, localBrainVars>>

\* build_messages, line 99: with _history_lock
BuildMessagesAcquire(t) ==
    /\ pc[t] = "bm_acquire"
    /\ history_lock = 0
    /\ history_lock' = t
    /\ Goto(t, "bm_body")
    /\ UNCHANGED <<memVars, apiVars, worldVars, stack, op, key, val, arg, ret>>
    /\ UNCHANGED <<conversation_history, command_log, dispatches, appended, localBrainVars>>

\* build_messages, lines 98-101, and the assignment of line 106.
BuildMessagesBody(t) ==
    /\ pc[t] = "bm_body"
    /\ messages' = [messages EXCEPT ![t] =
                      <<Entry("system", SYSTEM_PROMPT)>> \o conversation_history]
    /\ history_lock' = 0
    /\ Goto(t, "q_primary")
    /\ UNCHANGED <<memVars, apiVars, worldVars, stack, op, key, val, arg, ret>>
    /\ UNCHANGED <<conversation_history, command_log, dispatches, appended>>
    /\ UNCHANGED <<text, response, harg, trace, llm_calls, invoked>>

\* ---------------------------------------- brain.py: query_llm_with_context
Primary == "gpt-4o-mini"

Secondary == "anthropic/claude-3-sonnet"

ModelsFailed == "Sorry, I couldn't process your request with any available models."

\* completion.choices[0].message.content, per model
Content(model) == IF model = Primary THEN "Certainly, sir." ELSE "Of course."

\* One chat.completions.create(model, messages) call, as the provider saw it.
Completion(model, msgs, ok) == [model |-> model, messages |-> msgs, ok |-> ok]

Called(t, model, ok) ==
    llm_calls' = [llm_calls EXCEPT ![t] = Append(@, Completion(model, messages[t], ok))]

\* lines 108-116: the call of the primary model; any exception is caught.
QueryPrimary(t) ==
    /\ pc[t] = "q_primary"
    /\ \/ /\ Called(t, Primary, TRUE)
          /\ Return(t, RetStr(Content(Primary)))
       \/ /\ Called(t, Primary, FALSE)
          /\ Goto(t, "q_secondary")
          /\ UNCHANGED <<stack, ret>>
    /\ UNCHANGED <<memVars, apiVars, worldVars, op, key, val, arg>>
    /\ UNCHANGED <<sharedBrainVars, text, response, harg, messages, trace, invoked>>

\* QuerySecondary, were the failure of the fallback model not caught.
QuerySecondaryRaises(t) ==
    /\ pc[t] = "q_secondary"
    /\ \/ /\ Called(t, Secondary, TRUE)
          /\ Return(t, RetStr(Content(Secondary)))
       \/ /\ Called(t, Secondary, FALSE)
          /\ Goto(t, "gr_raise")
          /\ UNCHANGED <<stack, ret>>
    /\ UNCHANGED <<memVars, apiVars, worldVars, op, key, val, arg>>
    /\ UNCHANGED <<sharedBrainVars, text, response, harg, messages, trace, invoked>>

\* lines 118-132: the call of the fallback model; any exception is caught.
QuerySecondary(t) ==
    /\ pc[t] = "q_secondary"
    /\ \/ /\ Called(t, Secondary, TRUE)
          /\ Return(t, RetStr(Content(Secondary)))
       \/ /\ Called(t, Secondary, FALSE)
          /\ Return(t, RetStr(ModelsFailed))
    /\ UNCHANGED <<memVars, apiVars, worldVars, op, key, val, arg>>
    /\ UNCHANGED <<sharedBrainVars, text, response, harg, messages, trace, invoked>>

\* ------------------------------------------------- brain.py: get_response
ErrorReply == "Sorry, I encountered an error while processing your request."

\* line 54: response = handle_memory_commands(lower)
GetResponseMemory(t) ==
    /\ pc[t] = "gr_memory"
    /\ Tried(t, "memory", "running", NoRet)
    /\ Call(t, "hm_entry", "gr_memory_ret")
    /\ UNCHANGED <<memVars, apiVars, worldVars, op, key, val, arg, ret>>
    /\ UNCHANGED <<sharedBrainVars, text, response, harg, messages, llm_calls, invoked>>

\* GetResponseMemoryRet, were line 55 to go on to the service handlers
\* whatever the memory handler returned.
GetResponseMemoryRetAll(t) ==
    /\ pc[t] = "gr_memory_ret"
    /\ Settle(t, Outcome(ret[t]), ret[t])
    /\ Goto(t, "gr_service")
    /\ ret' = [ret EXCEPT ![t] = NoRet]
    /\ UNCHANGED stack
    /\ UNCHANGED <<memVars, apiVars, worldVars, op, key, val, arg>>
    /\ UNCHANGED <<sharedBrainVars, text, response, harg, messages, llm_calls, invoked>>

\* lines 55-56: if response: return response
GetResponseMemoryRet(t) ==
    /\ pc[t] = "gr_memory_ret"
    /\ Settle(t, Outcome(ret[t]), ret[t])
    /\ IF Truthy(ret[t])
       THEN Return(t, ret[t])
       ELSE /\ Goto(t, "gr_service")
            /\ ret' = [ret EXCEPT ![t] = NoRet]
            /\ UNCHANGED stack
    /\ UNCHANGED <<memVars, apiVars, worldVars, op, key, val, arg>>
    /\ UNCHANGED <<sharedBrainVars, text, response, harg, messages, llm_calls, invoked>>

\* lines 59-61: response = handle_service_commands(lower); if response: return
GetResponseService(t) ==
    /\ pc[t] = "gr_service"
    /\ \E o \in ServiceOutcomes[GrLower(t)] :
          /\ invoked' = [invoked EXCEPT ![t] = @ \o o.called]
          /\ Tried(t, "service", Outcome(o.r), o.r)
          /\ IF o.r.kind = "raise"
             THEN Goto(t, "gr_raise") /\ UNCHANGED <<stack, ret>>
             ELSE IF Truthy(o.r)
             THEN Return(t, o.r)
             ELSE Goto(t, "gr_system") /\ UNCHANGED <<stack, ret>>
    /\ UNCHANGED <<memVars, apiVars, worldVars, op, key, val, arg>>
    /\ UNCHANGED <<sharedBrainVars, text, response, harg, messages, llm_calls>>

\* lines 64-66: response = run_command(lower); if response: return response
GetResponseSystem(t) ==
    /\ pc[t] = "gr_system"
    /\ \E o \in CommandOutcomes[GrLower(t)] :
          /\ command_log' = command_log \o o.log
          /\ invoked' = [invoked EXCEPT ![t] = @ \o o.called]
          /\ Tried(t, "system", Outcome(o.r), o.r)
          /\ IF o.r.kind = "raise"
             THEN Goto(t, "gr_raise") /\ UNCHANGED <<stack, ret>>
             ELSE IF Truthy(o.r)
             THEN Return(t, o.r)
             ELSE Goto(t, "gr_llm") /\ UNCHANGED <<stack, ret>>
    /\ UNCHANGED <<memVars, apiVars, worldVars, op, key, val, arg>>
    /\ UNCHANGED <<history_lock, conversation_history, dispatches, appended>>
    /\ UNCHANGED <<text, response, harg, messages, llm_calls>>

\* line 69: add_to_history("user", text)
GetResponseLlm(t) ==
    /\ pc[t] = "gr_llm"
    /\ Tried(t, "llm", "running", NoRet)
    /\ harg' = [harg EXCEPT ![t] = Entry("user", text[t])]
    /\ Call(t, "ah_acquire", "gr_query")
    /\ UNCHANGED <<memVars, apiVars, worldVars, op, key, val, arg, ret>>
    /\ UNCHANGED <<sharedBrainVars, text, response, messages, llm_calls, invoked>>

\* line 70: response = query_llm_with_context(text), which starts with
\* build_messages()
GetResponseQuery(t) ==
    /\ pc[t] = "gr_query"
    /\ Call(t, "bm_acquire", "gr_reply")
    /\ UNCHANGED <<memVars, apiVars, worldVars, op, key, val, arg, ret, brainVars>>

\* line 71: add_to_history("assistant", response)
GetResponseReply(t) ==
    /\ pc[t] = "gr_reply"
    /\ response' = [response EXCEPT ![t] = ret[t]]
    /\ harg' = [harg EXCEPT ![t] = Entry("assistant", ret[t].v)]
    /\ Call(t, "ah_acquire", "gr_done")
    /\ UNCHANGED <<memVars, apiVars, worldVars, op, key, val, arg, ret>>
    /\ UNCHANGED <<sharedBrainVars, text, messages, trace, llm_calls, invoked>>

\* line 72: return response
GetResponseDone(t) ==
    /\ pc[t] = "gr_done"
    /\ Settle(t, "yielded", response[t])
    /\ Return(t, response[t])
    /\ UNCHANGED <<memVars, apiVars, worldVars, op, key, val, arg>>
    /\ UNCHANGED <<sharedBrainVars, text, response, harg, messages, llm_calls, invoked>>

\* An exception leaves the frames of the thread one after the other: to
\* `except Exception` of get_response (lines 74-76) when it was raised inside
\* its try block, and else to the code that made the call.
Propagate(t) ==
    /\ pc[t] \in RaiseLabels
    /\ IF Caught(t)
       THEN /\ pc' = [pc EXCEPT ![t] = "api_return"]
            /\ ret' = [ret EXCEPT ![t] = RetStr(ErrorReply)]
            /\ Settle(t, "raised", NoRet)
       ELSE /\ pc' = [pc EXCEPT ![t] = "api_raised"]
            /\ ret' = [ret EXCEPT ![t] = NoRet]
            /\ UNCHANGED trace
    /\ stack' = [stack EXCEPT ![t] = <<>>]
    /\ arg' = [arg EXCEPT ![t] = NoArg]
    /\ UNCHANGED <<memVars, apiVars, worldVars, op, key, val>>
    /\ UNCHANGED <<sharedBrainVars, text, response, harg, messages, llm_calls, invoked>>

\* ------------------------------------- command_worker.py: CommandWorker.run
\* The commands the window hands to its workers; each is lower case and has no
\* blanks around it, so that run_command(command) is run_command(lower).
WorkerCommands ==
    {"who wrote hamlet", "completely unrelated command xyz123", "opn browser", "shutdown now"}

\* str(e) of the exception run_command lets through.
WorkerErrorReply == "I encountered an error: [Errno 13] Permission denied: 'command_log.txt'"

\* CommandWorker.run, lines 41-50, on a thread of the pool: the shutdown
\* check, before anything else is called.
CallWorkerRun(t) ==
    /\ pc[t] = "idle"
    /\ dispatches < MaxDispatch
    /\ dispatches' = dispatches + 1
    /\ \E u \in WorkerCommands :
          /\ text' = [text EXCEPT ![t] = u]
          /\ IF Contains(Lower(u), "shutdown")
             THEN /\ pc' = [pc EXCEPT ![t] = "api_return"]
                  /\ ret' = [ret EXCEPT ![t] = RetStr("Powering down.")]
             ELSE /\ pc' = [pc EXCEPT ![t] = "cw_system"]
                  /\ UNCHANGED ret
    /\ op' = [op EXCEPT ![t] = "worker_run"]
    /\ UNCHANGED <<memVars, apiVars, worldVars, stack, key, val, arg>>
    /\ UNCHANGED <<history_lock, conversation_history, command_log, appended>>
    /\ UNCHANGED <<response, harg, messages, trace, llm_calls, invoked>>

\* CommandWorker.run, lines 52-58 and 71-74: run_command(self.command) first;
\* its reply is the worker's, and get_response(self.command) is called when
\* it has none.  An exception is reported as the reply.
WorkerSystem(t) ==
    /\ pc[t] = "cw_system"
    /\ \E o \in CommandOutcomes[text[t]] :
          /\ command_log' = command_log \o o.log
          /\ invoked' = [invoked EXCEPT ![t] = @ \o o.called]
          /\ Tried(t, "system", Outcome(o.r), o.r)
          /\ IF o.r.kind = "raise"
             THEN /\ pc' = [pc EXCEPT ![t] = "api_return"]
                  /\ ret' = [ret EXCEPT ![t] = RetStr(WorkerErrorReply)]
                  /\ UNCHANGED stack
             ELSE IF Truthy(o.r)
             THEN /\ pc' = [pc EXCEPT ![t] = "api_return"]
                  /\ ret' = [ret EXCEPT ![t] = o.r]
                  /\ UNCHANGED stack
             ELSE /\ pc' = [pc EXCEPT ![t] = "gr_memory"]
                  /\ stack' = [stack EXCEPT ![t] = <<"api_return">>]
                  /\ UNCHANGED ret
    /\ UNCHANGED <<memVars, apiVars, worldVars, op, key, val, arg>>
    /\ UNCHANGED <<history_lock, conversation_history, dispatches, appended>>
    /\ UNCHANGED <<text, response, harg, messages, llm_calls>>

\* ------------------------------------------------- callers of the store API
\* A thread starts the call o(k, v).  The calls of concurrent callers are
\* counted and bounded; a sequential caller's are not.
Begin(t, o, k, v, counted) ==
    /\ pc[t] = "idle"
    /\ IF counted
       THEN calls < MaxCalls /\ calls' = calls + 1
       ELSE UNCHANGED calls
    /\ op' = [op EXCEPT ![t] = o]
    /\ key' = [key EXCEPT ![t] = k]
    /\ val' = [val EXCEPT ![t] = v]
    /\ UNCHANGED <<memVars, last_write, worldVars, arg, ret, brainVars>>

CallRemember(t, counted) ==
    /\ \E k \in Keys, v \in Vals : Begin(t, "remember", k, v, counted)
    /\ Call(t, "rem_acquire", "api_return")

\* recall, line 106: memory = load_memory().
CallRecall(t, counted) ==
    /\ \E k \in Keys : Begin(t, "recall", k, Absent, counted)
    /\ pc' = [pc EXCEPT ![t] = "lm_acquire"]
    /\ stack' = [stack EXCEPT ![t] = <<"rec_get", "api_return">>]

CallForget(t, counted) ==
    /\ \E k \in Keys : Begin(t, "forget", k, Absent, counted)
    /\ Call(t, "fgt_acquire", "api_return")

\* list_memory, line 126, is load_memory.
CallListMemory(t, counted) ==
    /\ Begin(t, "list_memory", Absent, Absent, counted)
    /\ Call(t, "lm_acquire", "api_return")

CallClearCache(t, counted) ==
    /\ Begin(t, "clear_cache", Absent, Absent, counted)
    /\ Call(t, "cc_acquire", "api_return")

Finished(t) == [op |-> op[t], key |-> key[t], val |-> val[t], out |-> ret[t].v]

\* The call has returned ret[t] to the thread that made it ("api_return"), or
\* has raised to it ("api_raised"); the thread goes on to its next call.
ApiReturn(t, tracked) ==
    /\ pc[t] \in {"api_return", "api_raised"}
    /\ last_write' = IF tracked /\ pc[t] = "api_return" /\ op[t] \in {"remember", "forget"}
                     THEN Finished(t)
                     ELSE last_write
    /\ pc' = [pc EXCEPT ![t] = "idle"]
    /\ stack' = [stack EXCEPT ![t] = <<>>]
    /\ op' = [op EXCEPT ![t] = "none"]
    /\ key' = [key EXCEPT ![t] = Absent]
    /\ val' = [val EXCEPT ![t] = Absent]
    /\ arg' = [arg EXCEPT ![t] = NoArg]
    /\ ret' = [ret EXCEPT ![t] = NoRet]
    /\ text' = [text EXCEPT ![t] = ""]
    /\ response' = [response EXCEPT ![t] = NoRet]
    /\ harg' = [harg EXCEPT ![t] = NoEntry]
    /\ messages' = [messages EXCEPT ![t] = <<>>]
    /\ trace' = [trace EXCEPT ![t] = <<>>]
    /\ llm_calls' = [llm_calls EXCEPT ![t] = <<>>]
    /\ invoked' = [invoked EXCEPT ![t] = <<>>]
    /\ UNCHANGED <<memVars, calls, worldVars, sharedBrainVars>>

\* A thread calls get_response(u), as main.py and CommandWorker.run do.
CallGetResponse(t) ==
    /\ pc[t] = "idle"
    /\ dispatches < MaxDispatch
    /\ dispatches' = dispatches + 1
    /\ \E u \in Utterances : text' = [text EXCEPT ![t] = u]
    /\ op' = [op EXCEPT ![t] = "get_response"]
    /\ pc' = [pc EXCEPT ![t] = "gr_memory"]
    /\ stack' = [stack EXCEPT ![t] = <<"api_return">>]
    /\ UNCHANGED <<memVars, apiVars, worldVars, key, val, arg, ret>>
    /\ UNCHANGED <<history_lock, conversation_history, command_log, appended>>
    /\ UNCHANGED <<response, harg, messages, trace, llm_calls, invoked>>

\* A thread calls add_to_history("user", "test message"), as
\* test_add_to_history_basic does.
CallAddToHistory(t) ==
    /\ pc[t] = "idle"
    /\ appended < MaxAppends
    /\ appended' = appended + 1
    /\ harg' = [harg EXCEPT ![t] = Entry("user", "test message")]
    /\ op' = [op EXCEPT ![t] = "add_to_history"]
    /\ Call(t, "ah_acquire", "api_return")
    /\ UNCHANGED <<memVars, apiVars, worldVars, key, val, arg, ret>>
    /\ UNCHANGED <<history_lock, conversation_history, command_log, dispatches>>
    /\ UNCHANGED <<text, response, messages, trace, llm_calls, invoked>>

\* Turn number k of a conversation: the user and the assistant take turns,
\* the user first.
Turn(k) == Entry(IF k % 2 = 0 THEN "user" ELSE "assistant", "message " \o ToString(k))

\* A thread calls add_to_history with the next turn of the conversation.
CallAddTurn(t) ==
    /\ pc[t] = "idle"
    /\ appended < MaxAppends
    /\ appended' = appended + 1
    /\ harg' = [harg EXCEPT ![t] = Turn(appended)]
    /\ op' = [op EXCEPT ![t] = "add_to_history"]
    /\ Call(t, "ah_acquire", "api_return")
    /\ UNCHANGED <<memVars, apiVars, worldVars, key, val, arg, ret>>
    /\ UNCHANGED <<history_lock, conversation_history, command_log, dispatches>>
    /\ UNCHANGED <<text, response, messages, trace, llm_calls, invoked>>

\* --------------------------------------------------------- specifications
\* Threads that call the store's functions directly and concurrently, as
\* TestThreadSafety does, on a disk that does not fail.
NextStore ==
    \E t \in Threads :
        \/ Acquire(t)
        \/ LoadMemoryBody(t)
        \/ SaveMemoryBody(t)
        \/ SaveMemoryRaise(t)
        \/ RememberBody(t)
        \/ RememberSave(t)
        \/ RememberVector(t)
        \/ RecallGet(t)
        \/ ForgetBody(t)
        \/ ClearCacheBody(t)
        \/ CallRemember(t, TRUE)
        \/ CallRecall(t, TRUE)
        \/ CallForget(t, TRUE)
        \/ CallListMemory(t, TRUE)
        \/ CallClearCache(t, TRUE)
        \/ ApiReturn(t, FALSE)
        \/ Propagate(t)

SpecStore == Init /\ [][NextStore]_vars

\* One thread that calls the store's functions one after the other, as
\* TestMemoryManager does, on a disk that can fail.  (save_memory is never
\* handed None here, so SaveMemoryRaise and Propagate have no step.)
SeqStep(t) ==
    \/ Acquire(t)
    \/ LoadMemoryBody(t)
    \/ LoadMemoryIOError(t)
    \/ SaveMemoryBody(t)
    \/ SaveMemoryIOError(t)
    \/ RememberBody(t)
    \/ RememberSave(t)
    \/ RememberVector(t)
    \/ RecallGet(t)
    \/ ForgetBody(t)
    \/ ClearCacheBody(t)
    \/ CallRemember(t, FALSE)
    \/ CallRecall(t, FALSE)
    \/ CallForget(t, FALSE)
    \/ CallListMemory(t, FALSE)
    \/ CallClearCache(t, FALSE)
    \/ ApiReturn(t, TRUE)

NextSeq == SeqStep(1)

SpecSeq == Init /\ [][NextSeq]_vars

\* One thread that reads the store (recall, list_memory, clear_cache) from a
\* file that the disk can corrupt or fail to read.
NextLoad ==
    \/ Acquire(1)
    \/ LoadMemoryBody(1)
    \/ LoadMemoryIOError(1)
    \/ LoadMemoryDecodeError(1)
    \/ RecallGet(1)
    \/ ClearCacheBody(1)
    \/ CallRecall(1, FALSE)
    \/ CallListMemory(1, FALSE)
    \/ CallClearCache(1, FALSE)
    \/ ApiReturn(1, FALSE)
    \/ Propagate(1)
    \/ CorruptFile

SpecLoad == Init /\ [][NextLoad]_vars

\* Python switches threads preemptively: a thread that can run does run.
FairSpecSeq == SpecSeq /\ WF_vars(NextSeq)

FairSpecStore == SpecStore /\ \A t \in Threads : WF_vars(
    Acquire(t) \/ LoadMemoryBody(t) \/ SaveMemoryBody(t) \/ SaveMemoryRaise(t)
    \/ RememberBody(t) \/ RememberSave(t) \/ RememberVector(t) \/ RecallGet(t)
    \/ ForgetBody(t) \/ ClearCacheBody(t) \/ ApiReturn(t, FALSE) \/ Propagate(t))

\* The steps of thread t inside the store.
StoreStep(t) ==
    \/ Acquire(t)
    \/ LoadMemoryBody(t)
    \/ SaveMemoryBody(t)
    \/ SaveMemoryRaise(t)
    \/ RememberBody(t)
    \/ RememberSave(t)
    \/ RememberVector(t)
    \/ RecallGet(t)
    \/ ForgetBody(t)
    \/ ClearCacheBody(t)

\* The steps of thread t inside brain.py and the memory command handler.
BrainStep(t) ==
    \/ GetResponseMemory(t)
    \/ HandleMemoryCommands(t)
    \/ HmReply(t)
    \/ GetResponseMemoryRet(t)
    \/ GetResponseService(t)
    \/ GetResponseSystem(t)
    \/ GetResponseLlm(t)
    \/ GetResponseQuery(t)
    \/ GetResponseReply(t)
    \/ GetResponseDone(t)
    \/ BuildMessagesAcquire(t)
    \/ BuildMessagesBody(t)
    \/ QueryPrimary(t)
    \/ QuerySecondary(t)

HistoryStep(t) ==
    \/ AddToHistoryAcquire(t)
    \/ AddToHistoryAppend(t)
    \/ AddToHistoryTrim(t)

\* The assistant: thread Dispatcher takes the user's utterances one after the
\* other through get_response, while the other threads clear the store's
\* cache, as the test fixture does between tests.
Dispatcher == 1

NextBrain ==
    \/ CallGetResponse(Dispatcher)
    \/ \E t \in Threads \ {Dispatcher} : CallClearCache(t, FALSE)
    \/ \E t \in Threads :
          \/ StoreStep(t)
          \/ BrainStep(t)
          \/ HistoryStep(t)
          \/ Propagate(t)
          \/ ApiReturn(t, FALSE)

\* The assistant starts on a new memory.json or on one that holds a fact.
InitBrain ==
    /\ Init
    /\ memory_file \in {json_dump(EmptyDict),
                         json_dump([EmptyDict EXCEPT !["my favorite color"] = "red"])}

SpecBrain == InitBrain /\ [][NextBrain]_vars

\* Threads that call add_to_history directly and concurrently.
NextHistory ==
    \E t \in Threads :
        \/ CallAddToHistory(t)
        \/ HistoryStep(t)
        \/ ApiReturn(t, FALSE)

SpecHistory == Init /\ [][NextHistory]_vars

\* The start of the specifications that leave the store alone.
InitServices == Init /\ memory_file = json_dump(EmptyDict)

\* One thread adds the turns of a conversation, one call after the other.
NextTurns ==
    \/ CallAddTurn(Dispatcher)
    \/ HistoryStep(Dispatcher)
    \/ ApiReturn(Dispatcher, FALSE)

SpecTurns == InitServices /\ [][NextTurns]_vars

\* Callers of the weather service and of the weather handler, one call after
\* the other, while the clock goes on and the two services answer as they
\* please.
NextWeather ==
    \/ Tick
    \/ CallGetWeather
    \/ CallGetLocationFromIp
    \/ CallClearWeatherCache
    \/ CallHandleWeatherCommand

SpecWeather == InitServices /\ [][NextWeather]_vars

\* Callers of the file handler, one call after the other, at a console that
\* answers as it pleases, while other programs change the files.
NextFiles ==
    \/ CallHandleFileCommand
    \/ ReadConfirmation
    \/ DeleteFileChecks
    \/ OsRemove
    \/ FsChange

SpecFiles == InitServices /\ [][NextFiles]_vars

\* The window's thread pool: every thread runs CommandWorker.run for the
\* commands it is handed, concurrently with the others.  (None of the
\* commands is one the memory handler takes, so the store has no step here.)
NextWorkers ==
    \E t \in Threads :
        \/ CallWorkerRun(t)
        \/ WorkerSystem(t)
        \/ GetResponseMemory(t)
        \/ HandleMemoryCommands(t)
        \/ GetResponseMemoryRet(t)
        \/ GetResponseService(t)
        \/ GetResponseSystem(t)
        \/ GetResponseLlm(t)
        \/ GetResponseQuery(t)
        \/ GetResponseReply(t)
        \/ GetResponseDone(t)
        \/ BuildMessagesAcquire(t)
        \/ BuildMessagesBody(t)
        \/ QueryPrimary(t)
        \/ QuerySecondary(t)
        \/ HistoryStep(t)
        \/ Propagate(t)
        \/ ApiReturn(t, FALSE)

SpecWorkers == InitServices /\ [][NextWorkers]_vars

\* Threads that use the semantic index for the first time, concurrently.
NextEmbed ==
    \E t \in Threads :
        \/ CallVectorFunction(t)
        \/ EnsureInitializedCheck(t)
        \/ EnsureInitializedSet(t)
        \/ InitOpenai(t)
        \/ InitChroma(t)
        \/ VectorFunctionBody(t)
        \/ VectorFunctionReturn(t)

SpecEmbed == InitServices /\ [][NextEmbed]_vars

\* Threads that call find_file, and one that calls cancel_search.
NextSearch ==
    \/ \E t \in Threads : FindFileBegin(t) \/ FindFileStep(t) \/ FindFileReturn(t)
    \/ CancelSearch

SpecSearch == InitServices /\ [][NextSearch]_vars

\* ------------------------------------------------------------- properties
\* Thread t waits for _memory_lock while it holds the lock itself: the lock
\* is not reentrant and no other thread releases it, so t waits for ever.
SelfBlocked(t) == pc[t] \in AcquireLabels /\ memory_lock = t

\* Key k is in the store: in the cache when it is loaded, else in the file.
Stored(k) ==
    IF memory_cache.none THEN json_load(memory_file)[k] # Absent
    ELSE memory_cache.d[k] # Absent

\* The last stage of the dispatch thread t has in progress.
LastStage(t) == trace[t][Len(trace[t])]

\* Thread t has returned from get_response and its caller holds the result.
Answered(t) == op[t] = "get_response" /\ pc[t] = "api_return"

\* C1: get_response tries the stages in the order memory handler, service
\* handlers, run_command, LLM fallback; a stage is tried only after every
\* earlier stage has declined (returned a falsy result), no stage is tried
\* after one that yielded or raised, and the value returned is the result of
\* the stage that yielded.
StagesInOrder ==
    \A t \in Threads :
        LET tr == trace[t] IN
        /\ Len(tr) <= Len(StageOrder)
        /\ \A i \in 1..Len(tr) : tr[i].stage = StageOrder[i]
        /\ \A i \in 1..(Len(tr) - 1) : tr[i].out = "declined"
        /\ Answered(t) =>
              /\ tr # <<>>
              /\ LastStage(t).out \in {"yielded", "raised"}
              /\ LastStage(t).out = "yielded" =>
                    /\ ret[t] = LastStage(t).r
                    /\ LastStage(t).stage # "llm" => Truthy(ret[t])

\* C1, its case: the memory handler and the service handlers declined, then
\* run_command yielded, and its result is returned.
StagesInOrderWitness ==
    /\ Answered(Dispatcher)
    /\ Len(trace[Dispatcher]) = 3
    /\ LastStage(Dispatcher).out = "yielded"
    /\ ret[Dispatcher] = RetStr("Opening your browser, sir.")

\* The memory-command grammar, as the text of the contract gives it.
MemoryGrammar(u) ==
    \/ StartsWith(u, "remember that")
    \/ Contains(u, "what do you remember about")
    \/ Contains(u, "what do you know about")
    \/ StartsWith(u, "forget")
    \/ Contains(u, "what do you remember")
    \/ Contains(u, "list everything you remember")

\* The statements of the LLM fallback: lines 69-72 and what they call.
LlmLabels ==
    {"gr_llm", "ah_acquire", "ah_append", "ah_trim", "gr_query", "bm_acquire",
     "bm_body", "q_primary", "q_secondary", "gr_reply", "gr_done"}

\* C2: an utterance the memory-command grammar recognizes never reaches the
\* LLM fallback: its dispatch is never at a statement of the fallback, calls
\* no LLM provider, and the conversation history never holds it.
MemoryUtterancesSkipLlm ==
    /\ \A t \in Threads :
          (op[t] = "get_response" /\ MemoryGrammar(GrLower(t))) =>
              /\ pc[t] \notin LlmLabels
              /\ llm_calls[t] = <<>>
              /\ harg[t] = NoEntry
              /\ \A i \in 1..Len(trace[t]) : trace[t][i].stage # "llm"
    /\ \A i \in 1..Len(conversation_history) :
          conversation_history[i].role = "user" =>
              ~MemoryGrammar(Normalized(conversation_history[i].content))

\* C2, its case: after a dispatch that went to the LLM, the dispatch of a
\* recall utterance has returned the memory handler's reply.
MemoryUtterancesSkipLlmWitness ==
    /\ Answered(Dispatcher)
    /\ GrLower(Dispatcher) = "what do you know about my favorite color"
    /\ ret[Dispatcher] = RetStr("Your favorite color is red.")
    /\ trace[Dispatcher] = <<Stage("memory", "yielded", ret[Dispatcher])>>
    /\ Len(conversation_history) = 2

\* C3: remember(k, v) returns, whatever the state of the cache, and a
\* recall(k) that follows it returns v, while no read or write of the file
\* has failed.
RememberThenRecall ==
    /\ [](\A t \in Threads :
            (op[t] = "recall" /\ pc[t] = "api_return" /\ ~io_failed
             /\ last_write.op = "remember" /\ last_write.key = key[t])
            => ret[t] = RetVal(last_write.val))
    /\ \A t \in Threads :
          (op[t] = "remember" /\ pc[t] = "rem_acquire")
             ~> (op[t] = "remember" /\ pc[t] = "api_return")

\* C4: forget(k) of a stored key returns True with k gone from the cache and
\* from the file; forget(k) of a key that is not stored returns False.
ForgetContract ==
    \A t \in Threads, k \in Keys :
        /\ (op[t] = "forget" /\ pc[t] = "fgt_acquire" /\ key[t] = k /\ Stored(k))
              ~> (op[t] = "forget" /\ pc[t] = "api_return" /\ ret[t] = RetVal("True")
                  /\ ~Stored(k) /\ json_load(memory_file)[k] = Absent)
        /\ (op[t] = "forget" /\ pc[t] = "fgt_acquire" /\ key[t] = k /\ ~Stored(k))
              ~> (op[t] = "forget" /\ pc[t] = "api_return" /\ ret[t] = RetVal("False"))

\* C5: remember never blocks and never raises, and what it returns is True,
\* from a cache that is loaded and from one that is not, with and without a
\* failure of the semantic index.
RememberAlwaysSucceeds ==
    \A t \in Threads :
        op[t] = "remember" =>
            /\ ~SelfBlocked(t)
            /\ pc[t] \notin RaiseLabels \cup {"api_raised"}
            /\ pc[t] = "api_return" => ret[t] = RetVal("True")

\* C6: whenever no thread holds _history_lock, the conversation history has
\* at most 2 * MAX_HISTORY = 20 entries.
HistoryBounded ==
    history_lock = 0 =>
        /\ Len(conversation_history) <= 2 * MAX_HISTORY
        /\ Len(conversation_history) <= 20

\* C6, its case: more than 20 entries were added, the loop has trimmed the
\* history, and the lock is free again.
HistoryBoundedWitness ==
    /\ history_lock = 0
    /\ appended > 20
    /\ Len(conversation_history) = 20
    /\ \A t \in Threads : pc[t] = "idle"

\* C7: a recall or list_memory never reads a cache that differs from the
\* file: the store and the persist of a remember or forget are one step to
\* every reader.  (SpecStore has no failing disk.)
WriteIsAtomic ==
    \A t \in Threads :
        (op[t] \in {"recall", "list_memory"} /\ pc[t] = "lm_body" /\ ~memory_cache.none)
            => memory_cache.d = json_load(memory_file)

\* Every call in progress is a remember, and no two of them have one key.
DistinctRemembers ==
    /\ \A t \in Threads : op[t] \in {"none", "remember"}
    /\ \A t, u \in Threads : (t # u /\ op[t] = "remember" /\ op[u] = "remember") => key[t] # key[u]

\* C8: threads that call remember with distinct keys, from a cache that is
\* not loaded: every call returns, none raises, and the fact of a call that
\* has returned is in the cache and in the file.
ConcurrentRemembers ==
    /\ [](\A t \in Threads :
            (DistinctRemembers /\ op[t] = "remember") => pc[t] # "api_raised")
    /\ [](\A t \in Threads :
            (DistinctRemembers /\ op[t] = "remember" /\ pc[t] = "api_return")
            => /\ ~memory_cache.none
               /\ memory_cache.d[key[t]] = val[t]
               /\ json_load(memory_file)[key[t]] = val[t])
    /\ \A t \in Threads :
          (DistinctRemembers /\ op[t] = "remember" /\ pc[t] = "rem_acquire")
             ~> ((op[t] = "remember" /\ pc[t] = "api_return") \/ ~DistinctRemembers)

\* C9: the primary model is called first; the fallback model is called only
\* after the primary call failed, once, with the messages the primary call
\* got; when both fail query_llm_with_context returns ModelsFailed; and no
\* exception leaves query_llm_with_context or get_response.
LlmFallback ==
    \A t \in Threads :
        LET c == llm_calls[t] IN
        /\ Len(c) <= 2
        /\ Len(c) >= 1 => c[1].model = Primary
        /\ Len(c) = 2 =>
              /\ ~c[1].ok
              /\ c[2].model = Secondary
              /\ c[2].messages = c[1].messages
        /\ pc[t] = "q_secondary" => (Len(c) = 1 /\ ~c[1].ok)
        /\ pc[t] = "gr_reply" =>
              /\ Len(c) \in {1, 2}
              /\ c[Len(c)].ok => ret[t] = RetStr(Content(c[Len(c)].model))
              /\ ~c[Len(c)].ok => (Len(c) = 2 /\ ret[t] = RetStr(ModelsFailed))
        /\ (trace[t] # <<>> /\ LastStage(t).stage = "llm") => pc[t] \notin RaiseLabels
        /\ op[t] = "get_response" => pc[t] # "api_raised"

\* C9, its case: both calls have failed and the apology is what
\* query_llm_with_context returned.
LlmFallbackWitness ==
    /\ pc[Dispatcher] = "gr_reply"
    /\ Len(llm_calls[Dispatcher]) = 2
    /\ ~llm_calls[Dispatcher][2].ok
    /\ ret[Dispatcher] = RetStr(ModelsFailed)

\* C10: an exception raised in a stage of get_response never reaches the
\* caller, and the call returns ErrorReply.
ExceptionsCaught ==
    \A t \in Threads :
        op[t] = "get_response" =>
            /\ pc[t] # "api_raised"
            /\ (pc[t] = "api_return" /\ LastStage(t).out = "raised")
                  => ret[t] = RetStr(ErrorReply)
            /\ (pc[t] = "api_return" /\ ret[t] = RetStr(ErrorReply))
                  => LastStage(t).out = "raised"

\* C10, its case: save_memory raised inside the memory handler (the cache was
\* cleared between remember's store and its save) and get_response has
\* returned ErrorReply.
ExceptionsCaughtWitness ==
    /\ Answered(Dispatcher)
    /\ LastStage(Dispatcher) = Stage("memory", "raised", NoRet)
    /\ ret[Dispatcher] = RetStr(ErrorReply)

\* The categories of handle_service_commands in the order it tests them:
\* the handler of each and its trigger substrings.
Categories ==
    <<[handler |-> "handle_calendar_command",
       triggers |-> {"calendar", "schedule", "remind", "event"}],
      [handler |-> "handle_weather_command",
       triggers |-> {"weather", "forecast", "temperature"}],
      [handler |-> "handle_file_command",
       triggers |-> {"file", "document", "upload", "download"}],
      [handler |-> "handle_system_monitor_command",
       triggers |-> {"system", "monitor", "status"}]>>

ServiceHandlers == {Categories[i].handler : i \in 1..Len(Categories)}

\* The first category with a trigger substring in the text, 0 when there is
\* none; worked out once for the utterances.
FirstCategory ==
    [u \in Texts |->
        LET hit == {i \in 1..Len(Categories) : ContainsAny(u, Categories[i].triggers)} IN
        IF hit = {} THEN 0 ELSE CHOOSE i \in hit : \A j \in hit : i <= j]

\* What the handler of each category can return for the text, or raise.
HandlerResults ==
    [u \in Texts |->
        <<handle_calendar_command(u), handle_weather_command(u),
          handle_file_command(u), handle_system_monitor_command(u)>>]

\* What a stage that has ended handed to get_response.
StageResult(s) == IF s.out = "raised" THEN Raised ELSE s.r

\* The service handlers the dispatch of thread t has called so far.
HandlersCalled(t) == SelectSeq(invoked[t], LAMBDA n : n \in ServiceHandlers)

\* C11: handle_service_commands calls at most one handler, that of the first
\* category (calendar, weather, file, system) with a trigger substring in the
\* text, and returns what it returns, a declining absent included, without
\* calling a handler of a later category; with no trigger substring in the
\* text it calls no handler and returns absent.  Before the service stage
\* no handler has been called.
ServiceRouting ==
    \A t \in Threads :
        IF Len(trace[t]) < 2 THEN HandlersCalled(t) = <<>>
        ELSE LET c == FirstCategory[GrLower(t)]
                 r == StageResult(trace[t][2])
             IN  IF c = 0
                 THEN HandlersCalled(t) = <<>> /\ r = NoRet
                 ELSE /\ HandlersCalled(t) = <<Categories[c].handler>>
                      /\ r \in HandlerResults[GrLower(t)][c]

\* C11, its case: "remind" sends the text to the calendar handler, which
\* declines; the system monitor handler, which has a reply to "system
\* status", is not called and the dispatch goes on to run_command.
ServiceRoutingWitness ==
    /\ text[Dispatcher] = "remind me to check system status"
    /\ pc[Dispatcher] = "gr_system"
    /\ trace[Dispatcher][2] = Stage("service", "declined", NoRet)
    /\ invoked[Dispatcher] = <<"handle_calendar_command">>
    /\ NoRet \notin HandlerResults[GrLower(Dispatcher)][4]

\* The lookups of the history that go through a cache, and the TTL of each.
CacheLookups ==
    {i \in 1..Len(lookups) : lookups[i].fn \in {"get_weather", "get_location_from_ip"}}

TtlOf(fn) == IF fn = "get_weather" THEN WEATHER_CACHE_TTL ELSE LOCATION_CACHE_TTL

\* Lookup i sent a request and stored what it retrieved.
Retrieved(i) ==
    /\ lookups[i].sent = 1
    /\ lookups[i].r.kind = "str"
    /\ lookups[i].fn = "get_weather" => StartsWith(lookups[i].r.v, "Weather in ")

\* Lookup j is the first lookup after lookup i in the same cache under the
\* same key, and the caches were not cleared in between.
NextOf(i, j) ==
    /\ i < j
    /\ lookups[i].fn = lookups[j].fn
    /\ lookups[i].key = lookups[j].key
    /\ \A m \in (i + 1)..(j - 1) :
          /\ lookups[m].fn # "clear_weather_cache"
          /\ ~(lookups[m].fn = lookups[i].fn /\ lookups[m].key = lookups[i].key)

\* C12: in both caches (weather entries under the lowercased location, the
\* one IP-location entry) a lookup that finds an entry younger than the TTL
\* (180 s, 300 s) sends no request and returns the stored value, and a lookup
\* that finds no entry, or one whose age is at least the TTL, sends exactly
\* one request; so after a lookup that stored what it retrieved, the next
\* lookup of the same location sends no request and returns the same value
\* when it comes within the TTL, and sends one request when it comes later.
CacheTtl ==
    /\ \A i \in CacheLookups :
          LET l == lookups[i] IN
          IF l.had.has /\ l.at - l.had.timestamp < TtlOf(l.fn)
          THEN l.sent = 0 /\ l.r = RetStr(l.had.response)
          ELSE l.sent = 1
    /\ \A i, j \in CacheLookups :
          (NextOf(i, j) /\ Retrieved(i)) =>
              IF lookups[j].at - lookups[i].at < TtlOf(lookups[i].fn)
              THEN lookups[j].sent = 0 /\ lookups[j].r = lookups[i].r
              ELSE lookups[j].sent = 1

\* C12, its case: get_weather("Paris") retrieves a report; 179 seconds later
\* get_weather("paris") returns it without a request; a third call, when the
\* entry is 180 seconds old or older, sends the second request.
CacheTtlWitness ==
    /\ Len(lookups) = 3
    /\ \A i \in 1..3 : lookups[i].fn = "get_weather" /\ lookups[i].key = "paris"
    /\ lookups[1].r = RetStr(WeatherReport("Paris", [kind |-> "ok", description |-> "clear sky"]))
    /\ lookups[2].at - lookups[1].at = 179
    /\ lookups[2].sent = 0
    /\ lookups[2].r = lookups[1].r
    /\ lookups[3].at - lookups[1].at >= 180
    /\ lookups[3].sent = 1
    /\ lookups[1].sent + lookups[2].sent + lookups[3].sent = 2

\* The dispatching thread is inside get_response(u).
Asked(u) == op[Dispatcher] = "get_response" /\ text[Dispatcher] = u

\* get_response has returned a str that contains part.
Replied(part) == ret[Dispatcher].kind = "str" /\ Contains(ret[Dispatcher].v, part)

\* The value the store holds for key k.
StoredValue(k) == Get(IF memory_cache.none THEN json_load(memory_file) ELSE memory_cache.d, k)

\* C13: through get_response, whatever the state of the store (the cache not
\* loaded included), "Remember that my favorite color is blue" gets a reply
\* that contains "your favorite color is blue": the dispatch never waits for
\* a lock its own thread holds, and what it returns contains that text; and
\* "What do you know about my favorite color", asked while the store holds
\* that fact, gets a reply that contains "blue".
EndToEndRemember ==
    /\ Asked("Remember that my favorite color is blue") =>
          /\ ~SelfBlocked(Dispatcher)
          /\ Answered(Dispatcher) => Replied("your favorite color is blue")
    /\ (Asked("What do you know about my favorite color")
           /\ StoredValue("my favorite color") = "blue") =>
          /\ ~SelfBlocked(Dispatcher)
          /\ Answered(Dispatcher) => Replied("blue")

\* C14: get_response returns a str for every utterance, whichever stage
\* produces the reply, a file "find" command that matches files included.
ReturnsString ==
    \A t \in Threads : Answered(t) => ret[t].kind = "str"

\* The registry phrases whose similarity ratio to the text, 2 * matches /
\* (len(phrase) + len(text)), is at least 0.5, and those of them with the
\* highest ratio; worked out once for the utterances.
Registry == {Phrases[i] : i \in 1..Len(Phrases)}

CloseTo ==
    [u \in Texts |-> {p \in Registry : 2 * (2 * Matches(p, u)) >= Len(p) + Len(u)}]

Closest ==
    [u \in Texts |->
        {p \in CloseTo[u] :
            \A q \in CloseTo[u] :
                Matches(q, u) * (Len(p) + Len(u)) <= Matches(p, u) * (Len(q) + Len(u))}]

\* The commands of the registry the dispatch of thread t has called so far.
CommandsCalled(t) == SelectSeq(invoked[t], LAMBDA n : n \in Registry)

\* C15: run_command returns absent exactly when no registry phrase has a
\* similarity ratio of at least 0.5 to the lowercased text; otherwise it calls
\* exactly one command, that of the closest phrase, and returns its result
\* (or fails as that command fails).  Before run_command no command has been
\* called, and a run_command that fails to open its log calls none.
ClosestCommand ==
    \A t \in Threads :
        IF Len(trace[t]) < 3 THEN CommandsCalled(t) = <<>>
        ELSE LET u == GrLower(t)
                 r == StageResult(trace[t][3])
                 ran == CommandsCalled(t)
             IN  /\ Len(ran) <= 1
                 /\ r # Raised => (r = NoRet <=> CloseTo[u] = {})
                 /\ r \notin {Raised, NoRet} => ran # <<>>
                 /\ ran # <<>> => /\ Cardinality(Closest[u]) = 1
                                  /\ ran[1] \in Closest[u]
                                  /\ r \in command_map(ran[1])

\* C15, its case: "opn browser" is close to "open browser" and to "open vs
\* code"; the command of "open browser" is the one called, and its result is
\* what get_response returns.
ClosestCommandWitness ==
    /\ Answered(Dispatcher)
    /\ text[Dispatcher] = "opn browser"
    /\ CloseTo["opn browser"] = {"open browser", "open vs code"}
    /\ CloseTo["completely unrelated command xyz123"] = {}
    /\ invoked[Dispatcher] = <<"open browser">>
    /\ ret[Dispatcher] = RetStr("Opening your browser, sir.")

\* C16: handle_weather_command never raises to its caller: whatever the
\* geolocation and weather services answer (success, request exception,
\* status other than 200, a 200 whose body lacks the fields), a text with a
\* weather keyword gets a str, and that str is the apology when the location
\* could not be resolved.
WeatherHandlerReturns ==
    \A i \in 1..Len(lookups) :
        LET l == lookups[i] IN
        (l.fn = "handle_weather_command" /\ WeatherRoute[l.key].keyword) =>
            /\ l.r # Raised
            /\ l.r.kind = "str"
            /\ (i > 1 /\ lookups[i - 1].fn = "get_location_from_ip" /\ lookups[i - 1].r = NoRet)
                  => l.r = RetStr("Could not determine your location. Please specify a city.")

\* C17: a "delete " command removes a file only when the confirmation read
\* from the console, trimmed and lowercased, is "yes"; after any other
\* confirmation it removes nothing and returns "Delete operation canceled.";
\* what it removes is a file, never a directory.
ConfirmedDelete ==
    /\ \A i \in 1..Len(file_calls) :
          LET c == file_calls[i] IN
          /\ c.removed => /\ FileRoute[c.text].branch = "delete"
                          /\ c.asked
                          /\ Lower(Strip(c.typed)) = "yes"
                          /\ c.was = "file"
          /\ (c.asked /\ Lower(Strip(c.typed)) # "yes") =>
                /\ ~c.removed
                /\ c.r = RetStr("Delete operation canceled.")
    /\ file_command.pc \in {"delete", "remove"} => Lower(Strip(file_command.typed)) = "yes"

\* C17, its case: the first command was answered "no" and removed nothing;
\* the second was answered " YES " and has removed report.txt; the directory
\* is still there.
ConfirmedDeleteWitness ==
    /\ Len(file_calls) = 2
    /\ file_calls[1].typed = "no"
    /\ file_calls[1].r = RetStr("Delete operation canceled.")
    /\ file_calls[2].typed = " YES "
    /\ file_calls[2].removed
    /\ file_calls[2].r = RetStr("File deleted successfully: /home/user/report.txt")
    /\ fs["/home/user/report.txt"] = "none"
    /\ fs["/home/user/notes"] = "dir"

\* The number of turns the conversation of SpecTurns has appended so far:
\* the call in progress has not appended its turn before line 37.
Appended ==
    IF pc[Dispatcher] \in {"ah_acquire", "ah_append"} THEN appended - 1 ELSE appended

OldestPairDropped ==
    history_lock = 0 =>
        /\ (Appended - Len(conversation_history)) % 2 = 0
        /\ conversation_history # <<>> => conversation_history[1].role = "user"

\* C20: a save that fails with an I/O error raises nothing, sets the dirty flag
\* and leaves the attempted write in the cache, so that the recall that
\* follows a remember whose save failed returns the new value; the next save
\* that succeeds clears the flag.  (Dispatcher calls the store's functions one
\* after the other; the cache holds the write until clear_cache or the next
\* remember or forget.)
AtRest ==
    \/ pc[Dispatcher] \in {"idle", "api_return"}
    \/ op[Dispatcher] \in {"recall", "list_memory"}

DirtyAfterFailedSave ==
    /\ pc[Dispatcher] # "raise"
    /\ saved.ran => cache_dirty = saved.failed
    /\ (saved.failed /\ ~saved.lost /\ AtRest) => memory_cache = SomeCache(saved.memory)
    /\ ( /\ saved.failed /\ ~saved.lost
         /\ pc[Dispatcher] = "api_return" /\ op[Dispatcher] = "recall"
         /\ last_write.op = "remember" /\ last_write.key = key[Dispatcher] )
       => ret[Dispatcher] = RetVal(last_write.val)

DirtyAfterFailedSaveWitness ==
    /\ saved.failed /\ ~saved.lost /\ cache_dirty
    /\ pc[Dispatcher] = "api_return" /\ op[Dispatcher] = "recall"
    /\ last_write.op = "remember" /\ last_write.key = key[Dispatcher]
    /\ ret[Dispatcher] = RetVal(last_write.val)
    /\ memory_file.valid /\ Get(json_load(memory_file), key[Dispatcher]) # last_write.val

\* The flag a failed save has set is cleared by a later save that succeeds.
DirtyClearedWitness ==
    /\ io_failed /\ saved.ran /\ ~saved.failed /\ ~cache_dirty
    /\ memory_file = json_dump(saved.memory)

\* C21: with the cache not loaded and a memory file that is corrupt or cannot
\* be read, load_memory raises nothing, in recall and list_memory as well: it
\* leaves the empty mapping in the cache and returns it.
LoadSurvivesCorruption ==
    /\ pc[Dispatcher] \notin {"raise", "api_raised"}
    /\ (pc[Dispatcher] = "api_return" /\ op[Dispatcher] = "list_memory")
       => /\ ret[Dispatcher].kind = "dict"
          /\ ~memory_cache.none

\* C22: each call of run_command that returns appends exactly one record to
\* the command log, holding the input and, when a phrase matched, the matched
\* command; the records written before stay as they are.
RunCommandReturned(t) == pc[t] = "gr_system" /\ pc'[t] \notin {"gr_system", "gr_raise"}

OneRecordPerCommand ==
    [][\A t \in Threads :
          RunCommandReturned(t) =>
              LET lower == Lower(GrLower(t))
                  best_match == get_close_matches(lower)
              IN  command_log' = Append(command_log,
                      LogEntry(lower, IF best_match = <<>> THEN Absent ELSE best_match[1]))]_vars

\* C23: once cancel_search() has been called during a find_file walk, that
\* walk goes through no further directory and returns the matches it had
\* collected, also when another find_file call starts concurrently.
CancelStopsWalk ==
    \A t \in Threads :
        walk[t].cancelled_at # -1 =>
            /\ walk[t].visited = walk[t].cancelled_at
            /\ walk[t].matches = MatchesUpTo(walk[t].cancelled_at)

\* C24: for a weather utterance the location handed to get_weather is the text
\* after the word "in" ("berlin" for "weather in berlin"), and the location is
\* resolved through IP geolocation only when the word "in" does not occur.
WordIn ==
    [u \in WeatherTexts |->
        LET padded == " " \o Lower(u) \o " " IN
        [occurs |-> Contains(padded, " in "),
         after |-> IF Contains(padded, " in ") THEN Strip(SplitOnce(padded, " in ")[2]) ELSE ""]]

LocationAfterWordIn ==
    \A i \in 1..Len(lookups) :
        (lookups[i].fn = "handle_weather_command" /\ WeatherRoute[lookups[i].key].keyword) =>
            IF WordIn[lookups[i].key].occurs
            THEN /\ i > 1
                 /\ lookups[i - 1].fn = "get_weather"
                 /\ lookups[i - 1].key = Lower(WordIn[lookups[i].key].after)
            ELSE \/ i > 1 /\ lookups[i - 1].fn = "get_location_from_ip"
                 \/ /\ i > 2
                    /\ lookups[i - 2].fn = "get_location_from_ip"
                    /\ lookups[i - 1].fn = "get_weather"
                    /\ lookups[i - 1].key = Lower(lookups[i - 2].r.v)

\* C25: no thread tries to acquire the memory lock while it holds it, so that
\* every call of the store returns, from a cache that is loaded or not and for
\* keys that are stored or not.
NoSelfAcquire == \A t \in Threads : ~SelfBlocked(t)

\* C26: an utterance that a service handler recognizes when it is called
\* directly (its result is not absent) has been handed to that handler once
\* the service stage of its dispatch is over: the keyword gate of
\* handle_service_commands keeps no recognizable utterance from its handler.
Recognizers ==
    [u \in Texts |-> {c \in 1..Len(Categories) : HandlerResults[u][c] # {NoRet}}]

GateLetsRecognizedThrough ==
    \A t \in Threads :
        Len(trace[t]) >= 2 =>
            \A c \in Recognizers[GrLower(t)] :
                \E i \in 1..Len(invoked[t]) : invoked[t][i] = Categories[c].handler

\* C27: the turns of the history alternate user, assistant, each assistant
\* turn of an LLM dispatch directly after the user turn of that dispatch, and
\* the messages a dispatch sends to the LLM end with its own utterance, also
\* when several get_response calls run at once on worker threads.
TurnsAlternate ==
    /\ \A i \in 1..Len(conversation_history) :
          conversation_history[i].role = IF i % 2 = 1 THEN "user" ELSE "assistant"
    /\ \A t \in Threads :
          messages[t] # <<>> => messages[t][Len(messages[t])] = Entry("user", text[t])

\* C29: for a command without "shutdown", CommandWorker.run calls the
\* handlers as one get_response(command) does: the memory handler, then the
\* service handlers, then run_command at most once, then the LLM.
WorkerAsGetResponse ==
    \A t \in Threads :
        op[t] = "worker_run" =>
            /\ Len(trace[t]) <= Len(StageOrder)
            /\ \A i \in 1..Len(trace[t]) : trace[t][i].stage = StageOrder[i]

\* C28: every document of the semantic index is a fact the store holds now:
\* between calls, and while no read or write of the file has failed, the
\* value stored for the key of each document is the value of that document
\* (none is left of a key that was forgotten or of a value that was replaced).
IndexMatchesStore ==
    (pc[Dispatcher] = "idle" /\ ~io_failed) =>
        \A i \in 1..Len(vector_docs) : StoredValue(vector_docs[i][1]) = vector_docs[i][2]

\* C30: when _ensure_initialized has returned in a thread, no other thread is
\* still initializing the client or the collection, and a call is skipped
\* for want of a collection only when creating the collection has failed.
Initializing(t) == embed[t].pc \in {"ei_openai", "ei_chroma"}

InitFinishedOnReturn ==
    \A t \in Threads :
        /\ embed[t].pc = "body" => \A u \in Threads : ~Initializing(u)
        /\ embed[t].out = "skipped" => init_failed

====
